---- MODULE Spec2Model ----
(***************************************************************************)
(* A model of the lunarity Solidity parser: the nested-expression engine   *)
(* (parser/src/nested.rs), the statement engine (parser/src/statement.rs)  *)
(* and the contract-part engine (parser/src/contract.rs).                  *)
(*                                                                         *)
(* The parser is a recursive-descent parser over a token cursor.  Its      *)
(* state is the lexer position and the error list; every parsing method    *)
(* is modelled by an operator that takes the parser state `st` and returns *)
(* the node it produced (or None) together with the parser state it left   *)
(* behind.  The state machine owns a Parser built over a source and calls  *)
(* one of its public methods.                                              *)
(*                                                                         *)
(* A source is a sequence of lexemes.  Token i of the source spans         *)
(* [i, i+1); the end marker sits at Len(source)+1 and has an empty span.   *)
(***************************************************************************)
EXTENDS Integers, Sequences, FiniteSets, TLC

VARIABLES
    source,   \* the lexemes the lexer reads
    lexer,    \* index of the lexer's current token
    errors,   \* the error sink: positions of the tokens an error was raised at
    result,   \* what the last call returned (a node, or None)
    call      \* the method that was called, and its type parameter

vars == <<source, lexer, errors, result, call>>

-----------------------------------------------------------------------------
(* Lexer: lexeme -> Token                                                  *)

Identifiers == {"a", "b", "_"}

TokenOf ==
    ("a" :> "Identifier") @@ ("b" :> "Identifier") @@ ("_" :> "Identifier")
    @@ ("1" :> "LiteralInteger") @@ ("true" :> "LiteralTrue")
    @@ ("\"s\"" :> "LiteralString") @@ ("uint" :> "TypeUint")
    @@ ("." :> "Accessor") @@ ("(" :> "ParenOpen") @@ (")" :> "ParenClose")
    @@ ("[" :> "BracketOpen") @@ ("]" :> "BracketClose")
    @@ ("{" :> "BraceOpen") @@ ("}" :> "BraceClose")
    @@ (";" :> "Semicolon") @@ ("," :> "Comma") @@ (":" :> "Colon")
    @@ ("++" :> "OperatorIncrement") @@ ("--" :> "OperatorDecrement")
    @@ ("*" :> "OperatorMultiplication") @@ ("/" :> "OperatorDivision")
    @@ ("%" :> "OperatorRemainder") @@ ("**" :> "OperatorExponent")
    @@ ("+" :> "OperatorAddition") @@ ("-" :> "OperatorSubtraction")
    @@ ("<<" :> "OperatorBitShiftLeft") @@ (">>" :> "OperatorBitShiftRight")
    @@ ("<" :> "OperatorLesser") @@ ("<=" :> "OperatorLesserEquals")
    @@ (">" :> "OperatorGreater") @@ (">=" :> "OperatorGreaterEquals")
    @@ ("==" :> "OperatorEquality") @@ ("!=" :> "OperatorInequality")
    @@ ("&" :> "OperatorBitAnd") @@ ("^" :> "OperatorBitXor")
    @@ ("|" :> "OperatorBitOr") @@ ("&&" :> "OperatorLogicalAnd")
    @@ ("||" :> "OperatorLogicalOr") @@ ("?" :> "OperatorConditional")
    @@ ("=" :> "Assign") @@ ("+=" :> "AssignAddition")
    @@ ("-=" :> "AssignSubtraction") @@ ("*=" :> "AssignMultiplication")
    @@ ("/=" :> "AssignDivision") @@ ("%=" :> "AssignRemainder")
    @@ ("<<=" :> "AssignBitShiftLeft") @@ (">>=" :> "AssignBitShiftRight")
    @@ ("&=" :> "AssignBitAnd") @@ ("^=" :> "AssignBitXor")
    @@ ("|=" :> "AssignBitOr")
    @@ ("if" :> "KeywordIf") @@ ("else" :> "KeywordElse")
    @@ ("while" :> "KeywordWhile") @@ ("for" :> "KeywordFor")
    @@ ("do" :> "KeywordDo") @@ ("continue" :> "KeywordContinue")
    @@ ("break" :> "KeywordBreak") @@ ("return" :> "KeywordReturn")
    @@ ("throw" :> "KeywordThrow") @@ ("assembly" :> "KeywordAssembly")
    @@ ("var" :> "DeclarationVar") @@ ("modifier" :> "DeclarationModifier")
    @@ ("memory" :> "KeywordMemory") @@ ("storage" :> "KeywordStorage")
    @@ ("contract" :> "DeclarationContract") @@ ("is" :> "KeywordIs")
    @@ ("using" :> "KeywordUsing") @@ ("struct" :> "DeclarationStruct")
    @@ ("function" :> "DeclarationFunction") @@ ("event" :> "DeclarationEvent")
    @@ ("enum" :> "DeclarationEnum") @@ ("public" :> "KeywordPublic")
    @@ ("internal" :> "KeywordInternal") @@ ("private" :> "KeywordPrivate")
    @@ ("constant" :> "KeywordConstant") @@ ("indexed" :> "KeywordIndexed")
    @@ ("anonymous" :> "KeywordAnonymous")

Lexemes == DOMAIN TokenOf

\* lexer.token at position p
TokenAt(p) == IF p > Len(source) THEN "EndOfProgram" ELSE TokenOf[source[p]]

\* lexer.slice() at position p
SliceAt(p) == IF p > Len(source) THEN "" ELSE source[p]

\* lexer.range() at position p
StartAt(p) == p
EndAt(p) == IF p > Len(source) THEN p ELSE p + 1

-----------------------------------------------------------------------------
(* Parser helpers                                                          *)

None == [kind |-> "None"]

IsNone(n) == n.kind = "None"
IsSome(n) == n.kind # "None"

\* a parsing method's return: the node (or None) and the parser state
R(node, st) == [node |-> node, st |-> st]

Tok(st) == TokenAt(st.pos)

\* lexer.advance(): the end marker is never passed
Advance(st) == IF st.pos > Len(source) THEN st ELSE [st EXCEPT !.pos = st.pos + 1]

\* Parser::error: push an error for the current token
Error(st) == [st EXCEPT !.errs = Append(st.errs, st.pos)]

\* Parser::node_at
NodeAt(start, end, payload) == payload @@ [start |-> start, end |-> end]

\* Parser::node_at_token: a node over the current token, which is consumed
NodeAtToken(st, payload) ==
    R(NodeAt(StartAt(st.pos), EndAt(st.pos), payload), Advance(st))

\* Parser::start_then_advance: the current token is consumed unchecked
StartThenAdvance(st) == [start |-> StartAt(st.pos), st |-> Advance(st)]

\* Parser::expect: consume the token, or record an error and stay put
Expect(st, token) == IF Tok(st) = token THEN Advance(st) ELSE Error(st)

\* Parser::allow
Allow(st, token) ==
    IF Tok(st) = token THEN [ok |-> TRUE, st |-> Advance(st)]
    ELSE [ok |-> FALSE, st |-> st]

\* Parser::expect_end: as expect, returning the end of the current token
ExpectEnd(st, token) == [end |-> EndAt(st.pos), st |-> Expect(st, token)]

StrNode(st) ==
    NodeAt(StartAt(st.pos), EndAt(st.pos), [kind |-> "Str", value |-> SliceAt(st.pos)])

\* Parser::expect_str_node: the node is built from the current token either way
ExpectStrNode(st, token) == R(StrNode(st), Expect(st, token))

\* Parser::allow_str_node
AllowStrNode(st, token) ==
    IF Tok(st) = token THEN R(StrNode(st), Advance(st)) ELSE R(None, st)

\* Parser::allow_flag_node: a Flag node over the token, if it is there
AllowFlagNode(st, token) ==
    IF Tok(st) = token THEN NodeAtToken(st, [kind |-> "Flag"]) ELSE R(None, st)

\* Parser::unique_flag: the flag is set from the current token unless it was
\* set before; a second occurrence is an error and leaves the flag as it was
UniqueFlag(st, at, flag) ==
    IF IsSome(at) THEN [at |-> at, st |-> Error(st)]
    ELSE LET node == NodeAtToken(st, flag)
         IN  [at |-> node.node, st |-> node.st]

-----------------------------------------------------------------------------
(* Nested expressions: the per-precedence lookup tables.  A table maps a  *)
(* token to the name of its handler; a token outside the table's domain   *)
(* has no handler (the `_ => None` arm).                                  *)

\* nested.rs 26-66
TopPrecedence ==
    [Accessor |-> "MEMBR", ParenOpen |-> "CALL", BracketOpen |-> "INDEX",
     OperatorIncrement |-> "INC", OperatorDecrement |-> "DEC",
     OperatorMultiplication |-> "MUL", OperatorDivision |-> "DIV",
     OperatorRemainder |-> "REM", OperatorExponent |-> "EXPN",
     OperatorAddition |-> "ADD", OperatorSubtraction |-> "SUB",
     OperatorBitShiftLeft |-> "BSL", OperatorBitShiftRight |-> "BSR",
     OperatorLesser |-> "LESS", OperatorLesserEquals |-> "LSEQ",
     OperatorGreater |-> "GRTR", OperatorGreaterEquals |-> "GREQ",
     OperatorEquality |-> "EQ", OperatorInequality |-> "INEQ",
     OperatorBitAnd |-> "B_AND", OperatorBitXor |-> "B_XOR",
     OperatorBitOr |-> "B_OR", OperatorLogicalAnd |-> "AND",
     OperatorLogicalOr |-> "OR", OperatorConditional |-> "COND",
     Assign |-> "ASGN", AssignAddition |-> "A_ADD",
     AssignSubtraction |-> "A_SUB", AssignMultiplication |-> "A_MUL",
     AssignDivision |-> "A_DIV", AssignRemainder |-> "A_REM",
     AssignBitShiftLeft |-> "A_BSL", AssignBitShiftRight |-> "A_BSR",
     AssignBitAnd |-> "A_BAN", AssignBitXor |-> "A_XOR",
     AssignBitOr |-> "A_BOR"]

\* nested.rs 68-97
Precedence14 ==
    [Accessor |-> "MEMBR", ParenOpen |-> "CALL", BracketOpen |-> "INDEX",
     OperatorIncrement |-> "INC", OperatorDecrement |-> "DEC",
     OperatorMultiplication |-> "MUL", OperatorDivision |-> "DIV",
     OperatorRemainder |-> "REM", OperatorExponent |-> "EXPN",
     OperatorAddition |-> "ADD", OperatorSubtraction |-> "SUB",
     OperatorBitShiftLeft |-> "BSL", OperatorBitShiftRight |-> "BSR",
     OperatorLesser |-> "LESS", OperatorLesserEquals |-> "LSEQ",
     OperatorGreater |-> "GRTR", OperatorGreaterEquals |-> "GREQ",
     OperatorEquality |-> "EQ", OperatorInequality |-> "INEQ",
     OperatorBitAnd |-> "B_AND", OperatorBitXor |-> "B_XOR",
     OperatorBitOr |-> "B_OR", OperatorLogicalAnd |-> "AND",
     OperatorLogicalOr |-> "OR", OperatorConditional |-> "COND"]

\* nested.rs 99-127
Precedence13 ==
    [Accessor |-> "MEMBR", ParenOpen |-> "CALL", BracketOpen |-> "INDEX",
     OperatorIncrement |-> "INC", OperatorDecrement |-> "DEC",
     OperatorMultiplication |-> "MUL", OperatorDivision |-> "DIV",
     OperatorRemainder |-> "REM", OperatorExponent |-> "EXPN",
     OperatorAddition |-> "ADD", OperatorSubtraction |-> "SUB",
     OperatorBitShiftLeft |-> "BSL", OperatorBitShiftRight |-> "BSR",
     OperatorLesser |-> "LESS", OperatorLesserEquals |-> "LSEQ",
     OperatorGreater |-> "GRTR", OperatorGreaterEquals |-> "GREQ",
     OperatorEquality |-> "EQ", OperatorInequality |-> "INEQ",
     OperatorBitAnd |-> "B_AND", OperatorBitXor |-> "B_XOR",
     OperatorBitOr |-> "B_OR", OperatorLogicalAnd |-> "AND",
     OperatorLogicalOr |-> "OR"]

\* nested.rs 129-156
Precedence12 ==
    [Accessor |-> "MEMBR", ParenOpen |-> "CALL", BracketOpen |-> "INDEX",
     OperatorIncrement |-> "INC", OperatorDecrement |-> "DEC",
     OperatorMultiplication |-> "MUL", OperatorDivision |-> "DIV",
     OperatorRemainder |-> "REM", OperatorExponent |-> "EXPN",
     OperatorAddition |-> "ADD", OperatorSubtraction |-> "SUB",
     OperatorBitShiftLeft |-> "BSL", OperatorBitShiftRight |-> "BSR",
     OperatorLesser |-> "LESS", OperatorLesserEquals |-> "LSEQ",
     OperatorGreater |-> "GRTR", OperatorGreaterEquals |-> "GREQ",
     OperatorEquality |-> "EQ", OperatorInequality |-> "INEQ",
     OperatorBitAnd |-> "B_AND", OperatorBitXor |-> "B_XOR",
     OperatorBitOr |-> "B_OR", OperatorLogicalAnd |-> "AND"]

\* nested.rs 158-184
Precedence11 ==
    [Accessor |-> "MEMBR", ParenOpen |-> "CALL", BracketOpen |-> "INDEX",
     OperatorIncrement |-> "INC", OperatorDecrement |-> "DEC",
     OperatorMultiplication |-> "MUL", OperatorDivision |-> "DIV",
     OperatorRemainder |-> "REM", OperatorExponent |-> "EXPN",
     OperatorAddition |-> "ADD", OperatorSubtraction |-> "SUB",
     OperatorBitShiftLeft |-> "BSL", OperatorBitShiftRight |-> "BSR",
     OperatorLesser |-> "LESS", OperatorLesserEquals |-> "LSEQ",
     OperatorGreater |-> "GRTR", OperatorGreaterEquals |-> "GREQ",
     OperatorEquality |-> "EQ", OperatorInequality |-> "INEQ",
     OperatorBitAnd |-> "B_AND", OperatorBitXor |-> "B_XOR",
     OperatorBitOr |-> "B_OR"]

\* nested.rs 186-210
Precedence10 ==
    [Accessor |-> "MEMBR", ParenOpen |-> "CALL", BracketOpen |-> "INDEX",
     OperatorIncrement |-> "INC", OperatorDecrement |-> "DEC",
     OperatorMultiplication |-> "MUL", OperatorDivision |-> "DIV",
     OperatorRemainder |-> "REM", OperatorExponent |-> "EXPN",
     OperatorAddition |-> "ADD", OperatorSubtraction |-> "SUB",
     OperatorBitShiftLeft |-> "BSL", OperatorBitShiftRight |-> "BSR",
     OperatorLesser |-> "LESS", OperatorLesserEquals |-> "LSEQ",
     OperatorGreater |-> "GRTR", OperatorGreaterEquals |-> "GREQ",
     OperatorBitAnd |-> "B_AND", OperatorBitXor |-> "B_XOR",
     OperatorBitOr |-> "B_OR"]

\* the table of Precedence9 with the comparisons of Precedence10 left in
Precedence9WithComparisons ==
    [Accessor |-> "MEMBR", ParenOpen |-> "CALL", BracketOpen |-> "INDEX",
     OperatorIncrement |-> "INC", OperatorDecrement |-> "DEC",
     OperatorMultiplication |-> "MUL", OperatorDivision |-> "DIV",
     OperatorRemainder |-> "REM", OperatorExponent |-> "EXPN",
     OperatorAddition |-> "ADD", OperatorSubtraction |-> "SUB",
     OperatorBitShiftLeft |-> "BSL", OperatorBitShiftRight |-> "BSR",
     OperatorLesser |-> "LESS", OperatorLesserEquals |-> "LSEQ",
     OperatorGreater |-> "GRTR", OperatorGreaterEquals |-> "GREQ",
     OperatorBitAnd |-> "B_AND", OperatorBitXor |-> "B_XOR",
     OperatorBitOr |-> "B_OR"]

\* nested.rs 212-232
Precedence9 ==
    [Accessor |-> "MEMBR", ParenOpen |-> "CALL", BracketOpen |-> "INDEX",
     OperatorIncrement |-> "INC", OperatorDecrement |-> "DEC",
     OperatorMultiplication |-> "MUL", OperatorDivision |-> "DIV",
     OperatorRemainder |-> "REM", OperatorExponent |-> "EXPN",
     OperatorAddition |-> "ADD", OperatorSubtraction |-> "SUB",
     OperatorBitShiftLeft |-> "BSL", OperatorBitShiftRight |-> "BSR",
     OperatorBitAnd |-> "B_AND", OperatorBitXor |-> "B_XOR",
     OperatorBitOr |-> "B_OR"]

\* nested.rs 234-253
Precedence8 ==
    [Accessor |-> "MEMBR", ParenOpen |-> "CALL", BracketOpen |-> "INDEX",
     OperatorIncrement |-> "INC", OperatorDecrement |-> "DEC",
     OperatorMultiplication |-> "MUL", OperatorDivision |-> "DIV",
     OperatorRemainder |-> "REM", OperatorExponent |-> "EXPN",
     OperatorAddition |-> "ADD", OperatorSubtraction |-> "SUB",
     OperatorBitShiftLeft |-> "BSL", OperatorBitShiftRight |-> "BSR",
     OperatorBitAnd |-> "B_AND", OperatorBitXor |-> "B_XOR"]

\* nested.rs 255-273
Precedence7 ==
    [Accessor |-> "MEMBR", ParenOpen |-> "CALL", BracketOpen |-> "INDEX",
     OperatorIncrement |-> "INC", OperatorDecrement |-> "DEC",
     OperatorMultiplication |-> "MUL", OperatorDivision |-> "DIV",
     OperatorRemainder |-> "REM", OperatorExponent |-> "EXPN",
     OperatorAddition |-> "ADD", OperatorSubtraction |-> "SUB",
     OperatorBitShiftLeft |-> "BSL", OperatorBitShiftRight |-> "BSR",
     OperatorBitAnd |-> "B_AND"]

\* nested.rs 275-292
Precedence6 ==
    [Accessor |-> "MEMBR", ParenOpen |-> "CALL", BracketOpen |-> "INDEX",
     OperatorIncrement |-> "INC", OperatorDecrement |-> "DEC",
     OperatorMultiplication |-> "MUL", OperatorDivision |-> "DIV",
     OperatorRemainder |-> "REM", OperatorExponent |-> "EXPN",
     OperatorAddition |-> "ADD", OperatorSubtraction |-> "SUB",
     OperatorBitShiftLeft |-> "BSL", OperatorBitShiftRight |-> "BSR"]

\* nested.rs 294-309
Precedence5 ==
    [Accessor |-> "MEMBR", ParenOpen |-> "CALL", BracketOpen |-> "INDEX",
     OperatorIncrement |-> "INC", OperatorDecrement |-> "DEC",
     OperatorMultiplication |-> "MUL", OperatorDivision |-> "DIV",
     OperatorRemainder |-> "REM", OperatorExponent |-> "EXPN",
     OperatorAddition |-> "ADD", OperatorSubtraction |-> "SUB"]

\* nested.rs 311-324
Precedence4 ==
    [Accessor |-> "MEMBR", ParenOpen |-> "CALL", BracketOpen |-> "INDEX",
     OperatorIncrement |-> "INC", OperatorDecrement |-> "DEC",
     OperatorMultiplication |-> "MUL", OperatorDivision |-> "DIV",
     OperatorRemainder |-> "REM", OperatorExponent |-> "EXPN"]

\* nested.rs 326-336
Precedence3 ==
    [Accessor |-> "MEMBR", ParenOpen |-> "CALL", BracketOpen |-> "INDEX",
     OperatorIncrement |-> "INC", OperatorDecrement |-> "DEC",
     OperatorExponent |-> "EXPN"]

\* nested.rs 338-347
Precedence2 ==
    [Accessor |-> "MEMBR", ParenOpen |-> "CALL", BracketOpen |-> "INDEX",
     OperatorIncrement |-> "INC", OperatorDecrement |-> "DEC"]

Precedences ==
    {"TopPrecedence", "Precedence14", "Precedence13", "Precedence12",
     "Precedence11", "Precedence10", "Precedence9", "Precedence8",
     "Precedence7", "Precedence6", "Precedence5", "Precedence4",
     "Precedence3", "Precedence2"}

\* P::LUT
LUT(P) ==
    CASE P = "TopPrecedence" -> TopPrecedence
      [] P = "Precedence14" -> Precedence14
      [] P = "Precedence13" -> Precedence13
      [] P = "Precedence12" -> Precedence12
      [] P = "Precedence11" -> Precedence11
      [] P = "Precedence10" -> Precedence10
      [] P = "Precedence9" -> Precedence9
      [] P = "Precedence8" -> Precedence8
      [] P = "Precedence7" -> Precedence7
      [] P = "Precedence6" -> Precedence6
      [] P = "Precedence5" -> Precedence5
      [] P = "Precedence4" -> Precedence4
      [] P = "Precedence3" -> Precedence3
      [] P = "Precedence2" -> Precedence2

\* the instances of assign!: handler -> AssignmentOperator
AssignHandlers ==
    [ASGN |-> "Plain", A_ADD |-> "Addition", A_SUB |-> "Subtraction",
     A_MUL |-> "Multiplication", A_DIV |-> "Division", A_REM |-> "Remainder",
     A_BSL |-> "BitShiftLeft", A_BSR |-> "BitShiftRight", A_BAN |-> "BitAnd",
     A_XOR |-> "BitXor", A_BOR |-> "BitOr"]

\* the instances of binary!: handler -> (precedence of the right operand,
\* BinaryOperator)
BinaryHandlers ==
    [OR    |-> [precedence |-> "Precedence13", op |-> "LogicalOr"],
     AND   |-> [precedence |-> "Precedence12", op |-> "LogicalAnd"],
     EQ    |-> [precedence |-> "Precedence11", op |-> "Equality"],
     INEQ  |-> [precedence |-> "Precedence11", op |-> "Inequality"],
     LESS  |-> [precedence |-> "Precedence10", op |-> "Lesser"],
     LSEQ  |-> [precedence |-> "Precedence10", op |-> "LesserEquals"],
     GRTR  |-> [precedence |-> "Precedence10", op |-> "Greater"],
     GREQ  |-> [precedence |-> "Precedence10", op |-> "GreaterEquals"],
     B_OR  |-> [precedence |-> "Precedence9", op |-> "BitOr"],
     B_XOR |-> [precedence |-> "Precedence8", op |-> "BitXor"],
     B_AND |-> [precedence |-> "Precedence7", op |-> "BitAnd"],
     BSL   |-> [precedence |-> "Precedence6", op |-> "BitShiftLeft"],
     BSR   |-> [precedence |-> "Precedence6", op |-> "BitShiftRight"],
     ADD   |-> [precedence |-> "Precedence5", op |-> "Addition"],
     SUB   |-> [precedence |-> "Precedence5", op |-> "Subtraction"],
     MUL   |-> [precedence |-> "Precedence4", op |-> "Multiplication"],
     DIV   |-> [precedence |-> "Precedence4", op |-> "Division"],
     REM   |-> [precedence |-> "Precedence4", op |-> "Remainder"],
     EXPN  |-> [precedence |-> "Precedence3", op |-> "Exponent"]]

-----------------------------------------------------------------------------
(* The expression engine                                                   *)

\* Parser(method, T, st) is self.method::<T>() called in parser state st (the
\* methods are defined below)
RECURSIVE Parser(_, _, _)
RECURSIVE NestedExpression(_, _, _)
RECURSIVE ExpressionListTail(_, _)

\* Parser::expression_list: comma-separated expressions at TopPrecedence,
\* possibly none; returns the list
ExpressionList(st) ==
    LET first == Parser("expression", "TopPrecedence", st)
    IN  IF IsNone(first.node) THEN [list |-> <<>>, st |-> first.st]
        ELSE ExpressionListTail(<<first.node>>, first.st)

ExpressionListTail(list, st) ==
    LET comma == Allow(st, "Comma")
    IN  IF ~comma.ok THEN [list |-> list, st |-> st]
        ELSE LET next == Parser("expression", "TopPrecedence", comma.st)
             IN  IF IsNone(next.node)
                 THEN ExpressionListTail(list, Error(next.st))
                 ELSE ExpressionListTail(Append(list, next.node), next.st)

\* the prefix part of an expression: identifier, literal or tuple
PrefixExpression(st) ==
    CASE Tok(st) = "Identifier" ->
            NodeAtToken(st, [kind |-> "Identifier", value |-> SliceAt(st.pos)])
      [] Tok(st) \in {"LiteralInteger", "LiteralTrue", "LiteralString"} ->
            NodeAtToken(st, [kind |-> "Primitive", value |-> SliceAt(st.pos)])
      [] Tok(st) = "ParenOpen" ->
            LET open == StartThenAdvance(st)
                list == Parser("expression_list", "", open.st)
                close == ExpectEnd(list.st, "ParenClose")
            IN  R(NodeAt(open.start, close.end,
                         [kind |-> "TupleExpression", expressions |-> list.list]),
                  close.st)
      [] OTHER -> R(None, st)

CALL(st, callee) ==
    LET arguments == Parser("expression_list", "", Advance(st))
        close == ExpectEnd(arguments.st, "ParenClose")
    IN  R(NodeAt(callee.start, close.end,
                 [kind |-> "CallExpression", callee |-> callee,
                  arguments |-> arguments.list]),
          close.st)

MEMBR(st, object) ==
    LET member == ExpectStrNode(Advance(st), "Identifier")
    IN  R(NodeAt(object.start, member.node.end,
                 [kind |-> "MemberAccessExpression", object |-> object,
                  member |-> member.node]),
          member.st)

\* INDEX with a node that ends with the index expression
INDEXEndingAtIndex(st, array) ==
    LET index == Parser("expression", "TopPrecedence", Advance(st))
        close == ExpectEnd(index.st, "BracketClose")
    IN  R(NodeAt(array.start,
                 IF IsSome(index.node) THEN index.node.end ELSE close.end,
                 [kind |-> "IndexAccessExpression", array |-> array,
                  index |-> index.node]),
          close.st)

INDEX(st, array) ==
    LET index == Parser("expression", "TopPrecedence", Advance(st))
        close == ExpectEnd(index.st, "BracketClose")
    IN  R(NodeAt(array.start, close.end,
                 [kind |-> "IndexAccessExpression", array |-> array,
                  index |-> index.node]),
          close.st)

INC(st, operand) ==
    LET operator == NodeAtToken(st, [kind |-> "Increment"])
    IN  R(NodeAt(operand.start, operator.node.end,
                 [kind |-> "PostfixExpression", operator |-> operator.node,
                  operand |-> operand]),
          operator.st)

DEC(st, operand) ==
    LET operator == NodeAtToken(st, [kind |-> "Decrement"])
    IN  R(NodeAt(operand.start, operator.node.end,
                 [kind |-> "PostfixExpression", operator |-> operator.node,
                  operand |-> operand]),
          operator.st)

\* COND with both branches parsed at TopPrecedence instead of Precedence14
CONDAtTopPrecedence(st, test) ==
    LET consequent == Parser("expression", "TopPrecedence", Advance(st))
    IN  IF IsNone(consequent.node) THEN R(None, Error(consequent.st))
        ELSE LET alternate == Parser("expression", "TopPrecedence",
                                         Expect(consequent.st, "Colon"))
             IN  IF IsNone(alternate.node) THEN R(None, Error(alternate.st))
                 ELSE R(NodeAt(test.start, alternate.node.end,
                               [kind |-> "ConditionalExpression", test |-> test,
                                consequent |-> consequent.node,
                                alternate |-> alternate.node]),
                        alternate.st)

\* the handler COND
COND(st, test) ==
    LET consequent == Parser("expression", "Precedence14", Advance(st))
    IN  IF IsNone(consequent.node) THEN R(None, Error(consequent.st))
        ELSE LET alternate == Parser("expression", "Precedence14",
                                         Expect(consequent.st, "Colon"))
             IN  IF IsNone(alternate.node) THEN R(None, Error(alternate.st))
                 ELSE R(NodeAt(test.start, alternate.node.end,
                               [kind |-> "ConditionalExpression", test |-> test,
                                consequent |-> consequent.node,
                                alternate |-> alternate.node]),
                        alternate.st)

\* an assign! handler with the right operand parsed at Precedence14 instead
\* of TopPrecedence
AssignHandlerAtPrecedence14(name, st, left) ==
    LET operator == NodeAtToken(st, [kind |-> AssignHandlers[name]])
        right == Parser("expression", "Precedence14", operator.st)
    IN  IF IsNone(right.node) THEN R(None, Error(right.st))
        ELSE R(NodeAt(left.start, right.node.end,
                      [kind |-> "AssignmentExpression", operator |-> operator.node,
                       left |-> left, right |-> right.node]),
               right.st)

\* the handler assign! defines
AssignHandler(name, st, left) ==
    LET operator == NodeAtToken(st, [kind |-> AssignHandlers[name]])
        right == Parser("expression", "TopPrecedence", operator.st)
    IN  IF IsNone(right.node) THEN R(None, Error(right.st))
        ELSE R(NodeAt(left.start, right.node.end,
                      [kind |-> "AssignmentExpression", operator |-> operator.node,
                       left |-> left, right |-> right.node]),
               right.st)

\* a binary! handler with the right operand parsed at TopPrecedence instead
\* of the precedence the handler was declared with
BinaryHandlerAtTopPrecedence(name, st, left) ==
    LET operator == NodeAtToken(st, [kind |-> BinaryHandlers[name].op])
        right == Parser("expression", "TopPrecedence", operator.st)
    IN  IF IsNone(right.node) THEN R(None, Error(right.st))
        ELSE R(NodeAt(left.start, right.node.end,
                      [kind |-> "BinaryExpression", operator |-> operator.node,
                       left |-> left, right |-> right.node]),
               right.st)

\* a binary! handler that gives its left operand back when there is no
\* right operand
BinaryHandlerReturningLeft(name, st, left) ==
    LET operator == NodeAtToken(st, [kind |-> BinaryHandlers[name].op])
        right == Parser("expression", BinaryHandlers[name].precedence, operator.st)
    IN  IF IsNone(right.node) THEN R(left, Error(right.st))
        ELSE R(NodeAt(left.start, right.node.end,
                      [kind |-> "BinaryExpression", operator |-> operator.node,
                       left |-> left, right |-> right.node]),
               right.st)

\* the handler binary! defines
BinaryHandler(name, st, left) ==
    LET operator == NodeAtToken(st, [kind |-> BinaryHandlers[name].op])
        right == Parser("expression", BinaryHandlers[name].precedence, operator.st)
    IN  IF IsNone(right.node) THEN R(None, Error(right.st))
        ELSE R(NodeAt(left.start, right.node.end,
                      [kind |-> "BinaryExpression", operator |-> operator.node,
                       left |-> left, right |-> right.node]),
               right.st)

\* calling a NestedHandler by name
Handler(name, st, left) ==
    CASE name = "CALL" -> CALL(st, left)
      [] name = "MEMBR" -> MEMBR(st, left)
      [] name = "INDEX" -> INDEX(st, left)
      [] name = "INC" -> INC(st, left)
      [] name = "DEC" -> DEC(st, left)
      [] name = "COND" -> COND(st, left)
      [] name \in DOMAIN AssignHandlers -> AssignHandler(name, st, left)
      [] name \in DOMAIN BinaryHandlers -> BinaryHandler(name, st, left)

\* P::LUT[self.lexer.token].and_then(|handler| handler(self, left))
NestedHandler(P, st, left) ==
    IF Tok(st) \notin DOMAIN LUT(P) THEN R(None, st)
    ELSE Handler(LUT(P)[Tok(st)], st, left)

\* Parser::nested_expression::<P>
NestedExpression(P, st, left) ==
    LET node == NestedHandler(P, st, left)
    IN  IF IsNone(node.node) THEN R(left, node.st)
        ELSE NestedExpression(P, node.st, node.node)

\* Parser::expression::<P>: a prefix expression, then its nested expressions
Expression(P, st) ==
    LET left == PrefixExpression(st)
    IN  IF IsNone(left.node) THEN R(None, st)
        ELSE NestedExpression(P, left.st, left.node)

-----------------------------------------------------------------------------
(* Type names and declarations                                             *)

ElementaryTypeTokens == {"TypeUint"}

\* Parser::type_name::<Context>.  A statement may only open with an
\* elementary type name, so that the parser can fall back to an expression
\* statement without having consumed a token; elsewhere an identifier names
\* a user-defined type.  (Mappings and array suffixes are left out.)
TypeName(context, st) ==
    CASE Tok(st) \in ElementaryTypeTokens ->
            NodeAtToken(st, [kind |-> "ElementaryTypeName", value |-> SliceAt(st.pos)])
      [] Tok(st) = "Identifier" /\ context = "RegularTypeNameContext" ->
            NodeAtToken(st, [kind |-> "UserDefinedTypeName", value |-> SliceAt(st.pos)])
      [] OTHER -> R(None, st)

\* Parser::variable_declaration::<Context>: type [location] name
VariableDeclaration(context, st) ==
    LET type_name == Parser("type_name", context, st)
    IN  IF IsNone(type_name.node) THEN R(None, st)
        ELSE LET location ==
                    IF Tok(type_name.st) \in {"KeywordMemory", "KeywordStorage"}
                    THEN NodeAtToken(type_name.st,
                                     [kind |-> "StorageLocation",
                                      value |-> SliceAt(type_name.st.pos)])
                    ELSE R(None, type_name.st)
                 id == ExpectStrNode(location.st, "Identifier")
             IN  R(NodeAt(type_name.node.start, id.node.end,
                          [kind |-> "VariableDeclaration",
                           type_name |-> type_name.node,
                           location |-> location.node, id |-> id.node]),
                   id.st)

-----------------------------------------------------------------------------
(* The statement engine                                                    *)

StatementContexts ==
    {"FunctionContext", "ModifierContext", "FunctionLoopContext",
     "ModifierLoopContext"}

\* StatementContext::LoopContext
LoopContext(Context) ==
    CASE Context = "FunctionContext" -> "FunctionLoopContext"
      [] Context = "ModifierContext" -> "ModifierLoopContext"
      [] Context = "FunctionLoopContext" -> "FunctionLoopContext"
      [] Context = "ModifierLoopContext" -> "ModifierLoopContext"

\* Parser::token_statement
TokenStatement(st, statement) ==
    LET open == StartThenAdvance(st)
        close == ExpectEnd(open.st, "Semicolon")
    IN  R(NodeAt(open.start, close.end, [kind |-> statement]), close.st)

\* the placeholder test looking at the token after `_` as well
IsPlaceholderBeforeSemicolon(st) ==
    /\ Tok(st) = "Identifier" /\ SliceAt(st.pos) = "_"
    /\ TokenAt(st.pos + 1) = "Semicolon"

IsPlaceholderToken(st) ==
    Tok(st) = "Identifier" /\ SliceAt(st.pos) = "_"

\* pre_parse with the placeholder arm of ModifierLoopContext also under
\* FunctionLoopContext
PreParsePlaceholderInFunctionLoop(Context, st) ==
    CASE Context = "FunctionContext" -> R(None, st)
      [] Context = "ModifierContext" ->
            IF IsPlaceholderToken(st) THEN TokenStatement(st, "Placeholder")
            ELSE R(None, st)
      [] Context \in {"FunctionLoopContext", "ModifierLoopContext"} ->
            CASE IsPlaceholderToken(st) -> TokenStatement(st, "Placeholder")
              [] Tok(st) = "KeywordContinue" -> TokenStatement(st, "ContinueStatement")
              [] Tok(st) = "KeywordBreak" -> TokenStatement(st, "BreakStatement")
              [] OTHER -> R(None, st)

\* pre_parse with FunctionContext recording an error at a placeholder token
PreParsePlaceholderIsError(Context, st) ==
    CASE Context = "FunctionContext" ->
            IF IsPlaceholderToken(st) THEN R(None, Error(st)) ELSE R(None, st)
      [] Context = "ModifierContext" ->
            IF IsPlaceholderToken(st) THEN TokenStatement(st, "Placeholder")
            ELSE R(None, st)
      [] Context = "FunctionLoopContext" ->
            CASE Tok(st) = "KeywordContinue" -> TokenStatement(st, "ContinueStatement")
              [] Tok(st) = "KeywordBreak" -> TokenStatement(st, "BreakStatement")
              [] OTHER -> R(None, st)
      [] Context = "ModifierLoopContext" ->
            CASE IsPlaceholderToken(st) -> TokenStatement(st, "Placeholder")
              [] Tok(st) = "KeywordContinue" -> TokenStatement(st, "ContinueStatement")
              [] Tok(st) = "KeywordBreak" -> TokenStatement(st, "BreakStatement")
              [] OTHER -> R(None, st)

\* pre_parse with the continue and break arms also under ModifierContext
PreParseJumpsInModifier(Context, st) ==
    CASE Context = "FunctionContext" -> R(None, st)
      [] Context = "FunctionLoopContext" ->
            CASE Tok(st) = "KeywordContinue" -> TokenStatement(st, "ContinueStatement")
              [] Tok(st) = "KeywordBreak" -> TokenStatement(st, "BreakStatement")
              [] OTHER -> R(None, st)
      [] Context \in {"ModifierContext", "ModifierLoopContext"} ->
            CASE IsPlaceholderToken(st) -> TokenStatement(st, "Placeholder")
              [] Tok(st) = "KeywordContinue" -> TokenStatement(st, "ContinueStatement")
              [] Tok(st) = "KeywordBreak" -> TokenStatement(st, "BreakStatement")
              [] OTHER -> R(None, st)

\* StatementContext::pre_parse
PreParse(Context, st) ==
    CASE Context = "FunctionContext" -> R(None, st)
      [] Context = "ModifierContext" ->
            IF IsPlaceholderToken(st) THEN TokenStatement(st, "Placeholder")
            ELSE R(None, st)
      [] Context = "FunctionLoopContext" ->
            CASE Tok(st) = "KeywordContinue" -> TokenStatement(st, "ContinueStatement")
              [] Tok(st) = "KeywordBreak" -> TokenStatement(st, "BreakStatement")
              [] OTHER -> R(None, st)
      [] Context = "ModifierLoopContext" ->
            CASE IsPlaceholderToken(st) -> TokenStatement(st, "Placeholder")
              [] Tok(st) = "KeywordContinue" -> TokenStatement(st, "ContinueStatement")
              [] Tok(st) = "KeywordBreak" -> TokenStatement(st, "BreakStatement")
              [] OTHER -> R(None, st)

\* Parser::expression_statement
ExpressionStatement(st) ==
    LET expression == Parser("expression", "TopPrecedence", st)
    IN  IF IsNone(expression.node) THEN R(None, expression.st)
        ELSE LET close == ExpectEnd(expression.st, "Semicolon")
             IN  R(NodeAt(expression.node.start, close.end,
                          [kind |-> "ExpressionStatement",
                           expression |-> expression.node]),
                   close.st)

\* variable_definition_statement recording an error when there is no declaration
VariableDefinitionStatementOrError(st) ==
    LET declaration == Parser("variable_declaration", "StatementTypeNameContext", st)
    IN  IF IsNone(declaration.node) THEN R(None, Error(declaration.st))
        ELSE LET assign == Allow(declaration.st, "Assign")
                 init == IF assign.ok THEN Parser("expression", "TopPrecedence", assign.st)
                         ELSE R(None, assign.st)
                 checked == IF assign.ok /\ IsNone(init.node) THEN Error(init.st)
                            ELSE init.st
                 close == ExpectEnd(checked, "Semicolon")
             IN  R(NodeAt(declaration.node.start, close.end,
                          [kind |-> "VariableDefinitionStatement",
                           declaration |-> declaration.node, init |-> init.node]),
                   close.st)

\* Parser::variable_definition_statement
VariableDefinitionStatement(st) ==
    LET declaration == Parser("variable_declaration", "StatementTypeNameContext", st)
    IN  IF IsNone(declaration.node) THEN R(None, declaration.st)
        ELSE LET assign == Allow(declaration.st, "Assign")
                 init == IF assign.ok THEN Parser("expression", "TopPrecedence", assign.st)
                         ELSE R(None, assign.st)
                 checked == IF assign.ok /\ IsNone(init.node) THEN Error(init.st)
                            ELSE init.st
                 close == ExpectEnd(checked, "Semicolon")
             IN  R(NodeAt(declaration.node.start, close.end,
                          [kind |-> "VariableDefinitionStatement",
                           declaration |-> declaration.node, init |-> init.node]),
                   close.st)

RECURSIVE TupleDestructingTailWithoutHoles(_, _)
\* the comma loop with a list that takes the names only
TupleDestructingTailWithoutHoles(ids, st) ==
    LET comma == Allow(st, "Comma")
    IN  IF ~comma.ok THEN [list |-> ids, st |-> Expect(st, "ParenClose")]
        ELSE LET id == AllowStrNode(comma.st, "Identifier")
             IN  TupleDestructingTailWithoutHoles(
                     IF IsSome(id.node) THEN Append(ids, id.node) ELSE ids,
                     id.st)

RECURSIVE TupleDestructingTail(_, _)
TupleDestructingTail(ids, st) ==
    LET comma == Allow(st, "Comma")
    IN  IF ~comma.ok THEN [list |-> ids, st |-> Expect(st, "ParenClose")]
        ELSE LET id == AllowStrNode(comma.st, "Identifier")
             IN  TupleDestructingTail(Append(ids, id.node), id.st)

\* Parser::tuple_destructing
TupleDestructing(st) ==
    LET close == Allow(st, "ParenClose")
    IN  IF close.ok THEN [list |-> <<>>, st |-> close.st]
        ELSE LET first == AllowStrNode(st, "Identifier")
             IN  TupleDestructingTail(<<first.node>>, first.st)

\* Parser::inferred_definition_statement
InferredDefinitionStatement(st) ==
    LET open == StartThenAdvance(st)
        paren == Allow(open.st, "ParenOpen")
        ids == IF paren.ok THEN Parser("tuple_destructing", "", paren.st)
               ELSE LET id == ExpectStrNode(paren.st, "Identifier")
                    IN  [list |-> <<id.node>>, st |-> id.st]
        init == Parser("expression", "TopPrecedence", Expect(ids.st, "Assign"))
    IN  IF IsNone(init.node) THEN R(None, Error(init.st))
        ELSE LET close == ExpectEnd(init.st, "Semicolon")
             IN  R(NodeAt(open.start, close.end,
                          [kind |-> "InferredDefinitionStatement",
                           ids |-> ids.list, init |-> init.node]),
                   close.st)

\* Parser::simple_statement
SimpleStatement(st) ==
    IF Tok(st) = "DeclarationVar" THEN Parser("inferred_definition_statement", "", st)
    ELSE LET definition == Parser("variable_definition_statement", "", st)
         IN  IF IsNone(definition.node) THEN Parser("expression_statement", "", definition.st)
             ELSE definition

\* Parser::return_statement
ReturnStatement(st) ==
    LET open == StartThenAdvance(st)
        value == Parser("expression", "TopPrecedence", open.st)
        close == ExpectEnd(value.st, "Semicolon")
    IN  R(NodeAt(open.start, close.end,
                 [kind |-> "ReturnStatement", value |-> value.node]),
          close.st)

\* Parser::inline_assembly_block: only the framing braces; the items of an
\* assembly block are not parsed here
InlineAssemblyBlock(st) ==
    LET open == StartThenAdvance(st)
        close == ExpectEnd(open.st, "BraceClose")
    IN  R(NodeAt(open.start, close.end,
                 [kind |-> "InlineAssemblyBlock", items |-> <<>>]),
          close.st)

\* Parser::inline_assembly_statement
InlineAssemblyStatement(st) ==
    LET open == StartThenAdvance(st)
        string == AllowStrNode(open.st, "LiteralString")
        checked == IF Tok(string.st) # "BraceOpen" THEN Error(string.st)
                   ELSE string.st
        block == Parser("inline_assembly_block", "", checked)
    IN  IF IsNone(block.node) THEN R(None, Error(block.st))
        ELSE R(NodeAt(open.start, block.node.end,
                      [kind |-> "InlineAssemblyStatement",
                       string |-> string.node, block |-> block.node]),
               block.st)

RECURSIVE BlockBodyInLoopContext(_, _, _)
\* the statement loop of a block that parses its statements in the loop
\* context of Context
BlockBodyInLoopContext(Context, body, st) ==
    LET statement == Parser("statement", LoopContext(Context), st)
    IN  IF IsNone(statement.node) THEN [list |-> body, st |-> statement.st]
        ELSE BlockBodyInLoopContext(Context, Append(body, statement.node),
                                    statement.st)

RECURSIVE BlockBodyLoopContextLeaking(_, _, _)
\* the statement loop going on in the loop context after a loop statement
BlockBodyLoopContextLeaking(Context, body, st) ==
    LET statement == Parser("statement", Context, st)
    IN  IF IsNone(statement.node) THEN [list |-> body, st |-> statement.st]
        ELSE BlockBodyLoopContextLeaking(
                 IF statement.node.kind \in {"WhileStatement", "ForStatement",
                                             "DoWhileStatement"}
                 THEN LoopContext(Context) ELSE Context,
                 Append(body, statement.node), statement.st)

RECURSIVE BlockBody(_, _, _)

\* the statement loop of Parser::block
BlockBody(Context, body, st) ==
    LET statement == Parser("statement", Context, st)
    IN  IF IsNone(statement.node) THEN [list |-> body, st |-> statement.st]
        ELSE BlockBody(Context, Append(body, statement.node), statement.st)

\* Parser::block::<Context, B>
Block(Context, st) ==
    LET open == StartThenAdvance(st)
        body == BlockBody(Context, <<>>, open.st)
        close == ExpectEnd(body.st, "BraceClose")
    IN  R(NodeAt(open.start, close.end, [kind |-> "Block", body |-> body.list]),
          close.st)

\* if_statement with branches parsed in the loop context of Context
IfStatementInLoopContext(Context, st) ==
    LET open == StartThenAdvance(st)
        test == Parser("expression", "TopPrecedence", Expect(open.st, "ParenOpen"))
    IN  IF IsNone(test.node) THEN R(None, Error(test.st))
        ELSE
        LET consequent == Parser("statement", LoopContext(Context),
                                 Expect(test.st, "ParenClose"))
        IN  IF IsNone(consequent.node) THEN R(None, Error(consequent.st))
            ELSE
            LET else == Allow(consequent.st, "KeywordElse")
                alternate == IF else.ok
                             THEN Parser("statement", LoopContext(Context), else.st)
                             ELSE R(None, else.st)
                checked == IF else.ok /\ IsNone(alternate.node)
                           THEN Error(alternate.st) ELSE alternate.st
                end == IF IsSome(alternate.node) THEN alternate.node.end
                       ELSE consequent.node.end
            IN  R(NodeAt(open.start, end,
                         [kind |-> "IfStatement", test |-> test.node,
                          consequent |-> consequent.node,
                          alternate |-> alternate.node]),
                  checked)

\* if_statement returning None when no statement follows its else
IfStatementElseRequired(Context, st) ==
    LET open == StartThenAdvance(st)
        test == Parser("expression", "TopPrecedence", Expect(open.st, "ParenOpen"))
    IN  IF IsNone(test.node) THEN R(None, Error(test.st))
        ELSE
        LET consequent == Parser("statement", Context, Expect(test.st, "ParenClose"))
        IN  IF IsNone(consequent.node) THEN R(None, Error(consequent.st))
            ELSE
            LET else == Allow(consequent.st, "KeywordElse")
                alternate == IF else.ok THEN Parser("statement", Context, else.st)
                             ELSE R(None, else.st)
                end == IF IsSome(alternate.node) THEN alternate.node.end
                       ELSE consequent.node.end
            IN  IF else.ok /\ IsNone(alternate.node)
                THEN R(None, Error(alternate.st))
                ELSE R(NodeAt(open.start, end,
                              [kind |-> "IfStatement", test |-> test.node,
                               consequent |-> consequent.node,
                               alternate |-> alternate.node]),
                       alternate.st)

\* Parser::if_statement::<Context>
IfStatement(Context, st) ==
    LET open == StartThenAdvance(st)
        test == Parser("expression", "TopPrecedence", Expect(open.st, "ParenOpen"))
    IN  IF IsNone(test.node) THEN R(None, Error(test.st))
        ELSE
        LET consequent == Parser("statement", Context, Expect(test.st, "ParenClose"))
        IN  IF IsNone(consequent.node) THEN R(None, Error(consequent.st))
            ELSE
            LET else == Allow(consequent.st, "KeywordElse")
                alternate == IF else.ok THEN Parser("statement", Context, else.st)
                             ELSE R(None, else.st)
                checked == IF else.ok /\ IsNone(alternate.node)
                           THEN Error(alternate.st) ELSE alternate.st
                end == IF IsSome(alternate.node) THEN alternate.node.end
                       ELSE consequent.node.end
            IN  R(NodeAt(open.start, end,
                         [kind |-> "IfStatement", test |-> test.node,
                          consequent |-> consequent.node,
                          alternate |-> alternate.node]),
                  checked)

\* while_statement without the expect! around the body
WhileStatementBodyUnchecked(Context, st) ==
    LET open == StartThenAdvance(st)
        test == Parser("expression", "TopPrecedence", Expect(open.st, "ParenOpen"))
    IN  IF IsNone(test.node) THEN R(None, Error(test.st))
        ELSE
        LET body == Parser("statement", LoopContext(Context), Expect(test.st, "ParenClose"))
        IN  IF IsNone(body.node) THEN R(None, body.st)
            ELSE R(NodeAt(open.start, body.node.end,
                          [kind |-> "WhileStatement", test |-> test.node,
                           body |-> body.node]),
                   body.st)

\* Parser::while_statement::<Context>
WhileStatement(Context, st) ==
    LET open == StartThenAdvance(st)
        test == Parser("expression", "TopPrecedence", Expect(open.st, "ParenOpen"))
    IN  IF IsNone(test.node) THEN R(None, Error(test.st))
        ELSE
        LET body == Parser("statement", LoopContext(Context), Expect(test.st, "ParenClose"))
        IN  IF IsNone(body.node) THEN R(None, Error(body.st))
            ELSE R(NodeAt(open.start, body.node.end,
                          [kind |-> "WhileStatement", test |-> test.node,
                           body |-> body.node]),
                   body.st)

\* for_statement with its init parsed as a statement of the context
ForStatementInitAsStatement(Context, st) ==
    LET open == StartThenAdvance(st)
        init == Parser("statement", Context, Expect(open.st, "ParenOpen"))
        checked == IF IsNone(init.node) THEN Expect(init.st, "Semicolon")
                   ELSE init.st
        test == Parser("expression", "TopPrecedence", checked)
        update == Parser("expression", "TopPrecedence", Expect(test.st, "Semicolon"))
        body == Parser("statement", LoopContext(Context), Expect(update.st, "ParenClose"))
    IN  IF IsNone(body.node) THEN R(None, Error(body.st))
        ELSE R(NodeAt(open.start, body.node.end,
                      [kind |-> "ForStatement", init |-> init.node,
                       test |-> test.node, update |-> update.node,
                       body |-> body.node]),
               body.st)

\* Parser::for_statement::<Context>
ForStatement(Context, st) ==
    LET open == StartThenAdvance(st)
        init == Parser("simple_statement", "", Expect(open.st, "ParenOpen"))
        checked == IF IsNone(init.node) THEN Expect(init.st, "Semicolon")
                   ELSE init.st
        test == Parser("expression", "TopPrecedence", checked)
        update == Parser("expression", "TopPrecedence", Expect(test.st, "Semicolon"))
        body == Parser("statement", LoopContext(Context), Expect(update.st, "ParenClose"))
    IN  IF IsNone(body.node) THEN R(None, Error(body.st))
        ELSE R(NodeAt(open.start, body.node.end,
                      [kind |-> "ForStatement", init |-> init.node,
                       test |-> test.node, update |-> update.node,
                       body |-> body.node]),
               body.st)

\* Parser::do_while_statement::<Context>
DoWhileStatement(Context, st) ==
    LET open == StartThenAdvance(st)
        body == Parser("statement", LoopContext(Context), open.st)
    IN  IF IsNone(body.node) THEN R(None, Error(body.st))
        ELSE
        LET test == Parser("expression", "TopPrecedence",
                               Expect(Expect(body.st, "KeywordWhile"), "ParenOpen"))
        IN  IF IsNone(test.node) THEN R(None, Error(test.st))
            ELSE LET close == ExpectEnd(Expect(test.st, "ParenClose"), "Semicolon")
                 IN  R(NodeAt(open.start, close.end,
                              [kind |-> "DoWhileStatement", body |-> body.node,
                               test |-> test.node]),
                       close.st)

\* the dispatch of Parser::statement::<Context> after pre_parse found nothing
StatementDispatch(Context, st) ==
    CASE Tok(st) = "BraceOpen" -> Parser("block", Context, st)
      [] Tok(st) = "KeywordIf" -> Parser("if_statement", Context, st)
      [] Tok(st) = "KeywordWhile" -> Parser("while_statement", Context, st)
      [] Tok(st) = "KeywordFor" -> Parser("for_statement", Context, st)
      [] Tok(st) = "KeywordDo" -> Parser("do_while_statement", Context, st)
      [] Tok(st) = "KeywordReturn" -> Parser("return_statement", "", st)
      [] Tok(st) = "KeywordThrow" -> TokenStatement(st, "ThrowStatement")
      [] Tok(st) = "KeywordAssembly" -> Parser("inline_assembly_statement", "", st)
      [] Tok(st) = "DeclarationVar" -> Parser("inferred_definition_statement", "", st)
      [] OTHER -> LET definition == Parser("variable_definition_statement", "", st)
                  IN  IF IsNone(definition.node)
                      THEN Parser("expression_statement", "", definition.st)
                      ELSE definition

\* Parser::statement::<Context>
Statement(Context, st) ==
    LET statement == PreParse(Context, st)
    IN  IF IsSome(statement.node) THEN statement
        ELSE StatementDispatch(Context, statement.st)

-----------------------------------------------------------------------------
(* Modifier definitions                                                    *)

\* a parameter: a type name and an optional name
Parameter(st) ==
    LET type_name == Parser("type_name", "RegularTypeNameContext", st)
    IN  IF IsNone(type_name.node) THEN R(None, st)
        ELSE LET name == AllowStrNode(type_name.st, "Identifier")
             IN  R(NodeAt(type_name.node.start,
                          IF IsSome(name.node) THEN name.node.end
                          ELSE type_name.node.end,
                          [kind |-> "Parameter", type_name |-> type_name.node,
                           name |-> name.node]),
                   name.st)

RECURSIVE ParameterListTail(_, _)
ParameterListTail(list, st) ==
    LET comma == Allow(st, "Comma")
    IN  IF ~comma.ok THEN [list |-> list, st |-> st]
        ELSE LET next == Parameter(comma.st)
             IN  IF IsNone(next.node)
                 THEN ParameterListTail(list, Error(next.st))
                 ELSE ParameterListTail(Append(list, next.node), next.st)

\* Parser::parameter_list: comma-separated parameters, possibly none
ParameterList(st) ==
    LET first == Parameter(st)
    IN  IF IsNone(first.node) THEN [list |-> <<>>, st |-> first.st]
        ELSE ParameterListTail(<<first.node>>, first.st)

\* Parser::modifier_definition
ModifierDefinition(st) ==
    LET open == StartThenAdvance(st)
        name == ExpectStrNode(open.st, "Identifier")
        paren == Allow(name.st, "ParenOpen")
        params == IF paren.ok
                  THEN LET list == Parser("parameter_list", "", paren.st)
                       IN  [list |-> list.list, st |-> Expect(list.st, "ParenClose")]
                  ELSE [list |-> <<>>, st |-> paren.st]
        block == Parser("block", "ModifierContext", params.st)
    IN  R(NodeAt(open.start, block.node.end,
                 [kind |-> "ModifierDefinition", name |-> name.node,
                  params |-> params.list, block |-> block.node]),
          block.st)

-----------------------------------------------------------------------------
(* The contract engine                                                     *)

VisibilityOf ==
    [KeywordPublic |-> "Public", KeywordInternal |-> "Internal",
     KeywordPrivate |-> "Private"]

RECURSIVE StateVariableFlagsOverwriting(_, _, _)
\* the flag loop with flags that a later occurrence overwrites
StateVariableFlagsOverwriting(n, flags, st) ==
    IF n = 0 THEN [flags |-> flags, st |-> st]
    ELSE CASE Tok(st) \in DOMAIN VisibilityOf ->
                 LET set == UniqueFlag(st, None,
                                       [kind |-> "StateVariableVisibility",
                                        value |-> VisibilityOf[Tok(st)]])
                 IN  StateVariableFlagsOverwriting(
                         n - 1, [flags EXCEPT !.visibility = set.at], set.st)
           [] Tok(st) = "KeywordConstant" ->
                 LET set == UniqueFlag(st, None, [kind |-> "Flag"])
                 IN  StateVariableFlagsOverwriting(
                         n - 1, [flags EXCEPT !.constant = set.at], set.st)
           [] OTHER -> [flags |-> flags, st |-> st]

RECURSIVE StateVariableFlagsInOrder(_, _, _)
\* the flag loop taking the visibility first and `constant` second
StateVariableFlagsInOrder(n, flags, st) ==
    IF n = 0 THEN [flags |-> flags, st |-> st]
    ELSE CASE Tok(st) \in DOMAIN VisibilityOf /\ n = 2 ->
                 LET set == UniqueFlag(st, flags.visibility,
                                       [kind |-> "StateVariableVisibility",
                                        value |-> VisibilityOf[Tok(st)]])
                 IN  StateVariableFlagsInOrder(
                         n - 1, [flags EXCEPT !.visibility = set.at], set.st)
           [] Tok(st) = "KeywordConstant" ->
                 LET set == UniqueFlag(st, flags.constant, [kind |-> "Flag"])
                 IN  StateVariableFlagsInOrder(
                         n - 1, [flags EXCEPT !.constant = set.at], set.st)
           [] OTHER -> [flags |-> flags, st |-> st]

RECURSIVE StateVariableFlags(_, _, _)
\* the flag loop of state_variable_declaration, with n iterations to go
StateVariableFlags(n, flags, st) ==
    IF n = 0 THEN [flags |-> flags, st |-> st]
    ELSE CASE Tok(st) \in DOMAIN VisibilityOf ->
                 LET set == UniqueFlag(st, flags.visibility,
                                       [kind |-> "StateVariableVisibility",
                                        value |-> VisibilityOf[Tok(st)]])
                 IN  StateVariableFlags(n - 1, [flags EXCEPT !.visibility = set.at],
                                        set.st)
           [] Tok(st) = "KeywordConstant" ->
                 LET set == UniqueFlag(st, flags.constant, [kind |-> "Flag"])
                 IN  StateVariableFlags(n - 1, [flags EXCEPT !.constant = set.at],
                                        set.st)
           [] OTHER -> [flags |-> flags, st |-> st]

\* Parser::state_variable_declaration
StateVariableDeclaration(st) ==
    LET type_name == Parser("type_name", "RegularTypeNameContext", st)
    IN  IF IsNone(type_name.node) THEN R(None, type_name.st)
        ELSE
        LET set == StateVariableFlags(2, [visibility |-> None, constant |-> None],
                                      type_name.st)
            name == ExpectStrNode(set.st, "Identifier")
            assign == Allow(name.st, "Assign")
            init == IF assign.ok THEN Parser("expression", "TopPrecedence", assign.st)
                    ELSE R(None, assign.st)
            checked == IF assign.ok /\ IsNone(init.node) THEN Error(init.st)
                       ELSE init.st
            close == ExpectEnd(checked, "Semicolon")
        IN  R(NodeAt(type_name.node.start, close.end,
                     [kind |-> "StateVariableDeclaration",
                      type_name |-> type_name.node,
                      visibility |-> set.flags.visibility,
                      constant |-> set.flags.constant,
                      name |-> name.node, init |-> init.node]),
              close.st)

\* using_for_declaration without the wildcard arm
UsingForDeclarationTypeOnly(st) ==
    LET open == StartThenAdvance(st)
        id == ExpectStrNode(open.st, "Identifier")
        type_name == Parser("type_name", "RegularTypeNameContext",
                            Expect(id.st, "KeywordFor"))
        close == ExpectEnd(type_name.st, "Semicolon")
    IN  R(NodeAt(open.start, close.end,
                 [kind |-> "UsingForDeclaration", id |-> id.node,
                  type_name |-> type_name.node]),
          close.st)

\* Parser::using_for_declaration
UsingForDeclaration(st) ==
    LET open == StartThenAdvance(st)
        id == ExpectStrNode(open.st, "Identifier")
        type_name == Parser("type_name", "RegularTypeNameContext",
                            Expect(id.st, "KeywordFor"))
        checked == IF IsNone(type_name.node)
                   THEN Expect(type_name.st, "OperatorMultiplication")
                   ELSE type_name.st
        close == ExpectEnd(checked, "Semicolon")
    IN  R(NodeAt(open.start, close.end,
                 [kind |-> "UsingForDeclaration", id |-> id.node,
                  type_name |-> type_name.node]),
          close.st)

RECURSIVE StructBodyPrepending(_, _)
\* the declaration loop with a list that grows at its head
StructBodyPrepending(body, st) ==
    LET declaration == Parser("variable_declaration", "RegularTypeNameContext", st)
    IN  IF IsNone(declaration.node) THEN [list |-> body, st |-> declaration.st]
        ELSE StructBodyPrepending(<<declaration.node>> \o body,
                                  Expect(declaration.st, "Semicolon"))

RECURSIVE StructBody(_, _)
\* the declaration loop of struct_defintion, after the first declaration
StructBody(body, st) ==
    LET declaration == Parser("variable_declaration", "RegularTypeNameContext", st)
    IN  IF IsNone(declaration.node) THEN [list |-> body, st |-> declaration.st]
        ELSE StructBody(Append(body, declaration.node),
                        Expect(declaration.st, "Semicolon"))

\* struct_defintion with braces that may hold no declaration
StructDefinitionEmptyAllowed(st) ==
    LET open == StartThenAdvance(st)
        name == ExpectStrNode(open.st, "Identifier")
        first == Parser("variable_declaration", "RegularTypeNameContext",
                        Expect(name.st, "BraceOpen"))
        body == IF IsSome(first.node)
                THEN StructBody(<<first.node>>, Expect(first.st, "Semicolon"))
                ELSE [list |-> <<>>, st |-> first.st]
        close == ExpectEnd(body.st, "BraceClose")
    IN  R(NodeAt(open.start, close.end,
                 [kind |-> "StructDefinition", name |-> name.node,
                  body |-> body.list]),
          close.st)

\* Parser::struct_defintion
StructDefinition(st) ==
    LET open == StartThenAdvance(st)
        name == ExpectStrNode(open.st, "Identifier")
        first == Parser("variable_declaration", "RegularTypeNameContext",
                        Expect(name.st, "BraceOpen"))
        body == IF IsSome(first.node)
                THEN StructBody(<<first.node>>, Expect(first.st, "Semicolon"))
                ELSE [list |-> <<>>, st |-> Error(first.st)]
        close == ExpectEnd(body.st, "BraceClose")
    IN  R(NodeAt(open.start, close.end,
                 [kind |-> "StructDefinition", name |-> name.node,
                  body |-> body.list]),
          close.st)

\* indexed_parameter with a node that ends where its type name ends
IndexedParameterEndsAtType(st) ==
    LET type_name == Parser("type_name", "RegularTypeNameContext", st)
    IN  IF IsNone(type_name.node) THEN R(None, type_name.st)
        ELSE
        LET indexed == AllowFlagNode(type_name.st, "KeywordIndexed")
            name == AllowStrNode(indexed.st, "Identifier")
        IN  R(NodeAt(type_name.node.start, type_name.node.end,
                     [kind |-> "IndexedParameter", indexed |-> indexed.node,
                      type_name |-> type_name.node, name |-> name.node]),
              name.st)

\* Parser::indexed_parameter
IndexedParameter(st) ==
    LET type_name == Parser("type_name", "RegularTypeNameContext", st)
    IN  IF IsNone(type_name.node) THEN R(None, type_name.st)
        ELSE
        LET indexed == AllowFlagNode(type_name.st, "KeywordIndexed")
            name == AllowStrNode(indexed.st, "Identifier")
            end == IF IsSome(name.node) THEN name.node.end
                   ELSE IF IsSome(indexed.node) THEN indexed.node.end
                   ELSE type_name.node.end
        IN  R(NodeAt(type_name.node.start, end,
                     [kind |-> "IndexedParameter", indexed |-> indexed.node,
                      type_name |-> type_name.node, name |-> name.node]),
              name.st)

RECURSIVE EventParameters(_, _)
\* the comma loop of event_definition
EventParameters(params, st) ==
    LET comma == Allow(st, "Comma")
    IN  IF ~comma.ok THEN [list |-> params, st |-> st]
        ELSE LET param == Parser("indexed_parameter", "", comma.st)
             IN  IF IsSome(param.node)
                 THEN EventParameters(Append(params, param.node), param.st)
                 ELSE EventParameters(params, Error(param.st))

\* event_definition that reads `anonymous` without keeping the flag
EventDefinitionFlagDropped(st) ==
    LET open == StartThenAdvance(st)
        name == ExpectStrNode(open.st, "Identifier")
        first == Parser("indexed_parameter", "", Expect(name.st, "ParenOpen"))
        params == IF IsSome(first.node) THEN EventParameters(<<first.node>>, first.st)
                  ELSE [list |-> <<>>, st |-> first.st]
        anonymous == Allow(Expect(params.st, "ParenClose"), "KeywordAnonymous")
        close == ExpectEnd(anonymous.st, "Semicolon")
    IN  R(NodeAt(open.start, close.end,
                 [kind |-> "EventDefinition", anonymous |-> None,
                  name |-> name.node, params |-> params.list]),
          close.st)

\* Parser::event_definition
EventDefinition(st) ==
    LET open == StartThenAdvance(st)
        name == ExpectStrNode(open.st, "Identifier")
        first == Parser("indexed_parameter", "", Expect(name.st, "ParenOpen"))
        params == IF IsSome(first.node) THEN EventParameters(<<first.node>>, first.st)
                  ELSE [list |-> <<>>, st |-> first.st]
        anonymous == AllowFlagNode(Expect(params.st, "ParenClose"), "KeywordAnonymous")
        close == ExpectEnd(anonymous.st, "Semicolon")
    IN  R(NodeAt(open.start, close.end,
                 [kind |-> "EventDefinition", anonymous |-> anonymous.node,
                  name |-> name.node, params |-> params.list]),
          close.st)

RECURSIVE EnumVariants(_, _)
\* the comma loop of enum_definition
EnumVariants(variants, st) ==
    LET comma == Allow(st, "Comma")
    IN  IF ~comma.ok THEN [list |-> variants, st |-> st]
        ELSE LET variant == ExpectStrNode(comma.st, "Identifier")
             IN  EnumVariants(Append(variants, variant.node), variant.st)

\* Parser::enum_definition
EnumDefinition(st) ==
    LET open == StartThenAdvance(st)
        name == ExpectStrNode(open.st, "Identifier")
        first == AllowStrNode(Expect(name.st, "BraceOpen"), "Identifier")
        variants == IF IsSome(first.node) THEN EnumVariants(<<first.node>>, first.st)
                    ELSE [list |-> <<>>, st |-> first.st]
        close == ExpectEnd(variants.st, "BraceClose")
    IN  R(NodeAt(open.start, close.end,
                 [kind |-> "EnumDefinition", name |-> name.node,
                  variants |-> variants.list]),
          close.st)

\* Parser::function_definition: name, parameters, and a body parsed in
\* FunctionContext or a semicolon; the attributes of a function are left out
FunctionDefinition(st) ==
    LET open == StartThenAdvance(st)
        name == AllowStrNode(open.st, "Identifier")
        params == Parser("parameter_list", "", Expect(name.st, "ParenOpen"))
        closed == Expect(params.st, "ParenClose")
    IN  IF Tok(closed) = "BraceOpen"
        THEN LET block == Parser("block", "FunctionContext", closed)
             IN  R(NodeAt(open.start, block.node.end,
                          [kind |-> "FunctionDefinition", name |-> name.node,
                           params |-> params.list, block |-> block.node]),
                   block.st)
        ELSE LET close == ExpectEnd(closed, "Semicolon")
             IN  R(NodeAt(open.start, close.end,
                          [kind |-> "FunctionDefinition", name |-> name.node,
                           params |-> params.list, block |-> None]),
                   close.st)

\* contract_part with a fallback that yields a declaration without reading
\* a token when the current token starts no type name
ContractPartWithoutAdvance(st) ==
    CASE Tok(st) = "KeywordUsing" -> Parser("using_for_declaration", "", st)
      [] Tok(st) = "DeclarationStruct" -> Parser("struct_defintion", "", st)
      [] Tok(st) = "DeclarationModifier" -> Parser("modifier_definition", "", st)
      [] Tok(st) = "DeclarationFunction" -> Parser("function_definition", "", st)
      [] Tok(st) = "DeclarationEvent" -> Parser("event_definition", "", st)
      [] Tok(st) = "DeclarationEnum" -> Parser("enum_definition", "", st)
      [] Tok(st) \in ElementaryTypeTokens \cup {"Identifier"} ->
             Parser("state_variable_declaration", "", st)
      [] OTHER -> R(NodeAt(StartAt(st.pos), StartAt(st.pos),
                           [kind |-> "StateVariableDeclaration"]), st)

\* Parser::contract_part
ContractPart(st) ==
    CASE Tok(st) = "KeywordUsing" -> Parser("using_for_declaration", "", st)
      [] Tok(st) = "DeclarationStruct" -> Parser("struct_defintion", "", st)
      [] Tok(st) = "DeclarationModifier" -> Parser("modifier_definition", "", st)
      [] Tok(st) = "DeclarationFunction" -> Parser("function_definition", "", st)
      [] Tok(st) = "DeclarationEvent" -> Parser("event_definition", "", st)
      [] Tok(st) = "DeclarationEnum" -> Parser("enum_definition", "", st)
      [] OTHER -> Parser("state_variable_declaration", "", st)

RECURSIVE InheritsPrepending(_, _)
\* the comma loop with a list that grows at its head
InheritsPrepending(inherits, st) ==
    LET comma == Allow(st, "Comma")
    IN  IF ~comma.ok THEN [list |-> inherits, st |-> st]
        ELSE LET id == ExpectStrNode(comma.st, "Identifier")
             IN  InheritsPrepending(<<id.node>> \o inherits, id.st)

RECURSIVE Inherits(_, _)
\* the comma loop over the inherited names of contract_definition
Inherits(inherits, st) ==
    LET comma == Allow(st, "Comma")
    IN  IF ~comma.ok THEN [list |-> inherits, st |-> st]
        ELSE LET id == ExpectStrNode(comma.st, "Identifier")
             IN  Inherits(Append(inherits, id.node), id.st)

RECURSIVE ContractBody(_, _)
\* the part loop of contract_definition
ContractBody(body, st) ==
    LET part == Parser("contract_part", "", st)
    IN  IF IsNone(part.node) THEN [list |-> body, st |-> part.st]
        ELSE ContractBody(Append(body, part.node), part.st)

\* contract_definition with a closing brace that may be missing
ContractDefinitionBraceOptional(st) ==
    LET open == StartThenAdvance(st)
        name == ExpectStrNode(open.st, "Identifier")
        is == Allow(name.st, "KeywordIs")
        inherits == IF is.ok
                    THEN LET first == ExpectStrNode(is.st, "Identifier")
                         IN  Inherits(<<first.node>>, first.st)
                    ELSE [list |-> <<>>, st |-> is.st]
        body == ContractBody(<<>>, Expect(inherits.st, "BraceOpen"))
        close == Allow(body.st, "BraceClose")
    IN  R(NodeAt(open.start, EndAt(body.st.pos),
                 [kind |-> "ContractDefinition", name |-> name.node,
                  inherits |-> inherits.list, body |-> body.list]),
          close.st)

\* Parser::contract_definition
ContractDefinition(st) ==
    LET open == StartThenAdvance(st)
        name == ExpectStrNode(open.st, "Identifier")
        is == Allow(name.st, "KeywordIs")
        inherits == IF is.ok
                    THEN LET first == ExpectStrNode(is.st, "Identifier")
                         IN  Inherits(<<first.node>>, first.st)
                    ELSE [list |-> <<>>, st |-> is.st]
        body == ContractBody(<<>>, Expect(inherits.st, "BraceOpen"))
        close == ExpectEnd(body.st, "BraceClose")
    IN  R(NodeAt(open.start, close.end,
                 [kind |-> "ContractDefinition", name |-> name.node,
                  inherits |-> inherits.list, body |-> body.list]),
          close.st)

-----------------------------------------------------------------------------
\* the methods of the parser, called by name: Parser(method, T, st) is
\* self.method::<T>() called in parser state st
Parser(method, T, st) ==
    CASE method = "type_name" -> TypeName(T, st)
      [] method = "variable_declaration" -> VariableDeclaration(T, st)
      [] method = "block" -> Block(T, st)
      [] method = "if_statement" -> IfStatement(T, st)
      [] method = "while_statement" -> WhileStatement(T, st)
      [] method = "for_statement" -> ForStatement(T, st)
      [] method = "do_while_statement" -> DoWhileStatement(T, st)
      [] method = "expression" -> Expression(T, st)
      [] method = "statement" -> Statement(T, st)
      [] method = "expression_list" -> ExpressionList(st)
      [] method = "expression_statement" -> ExpressionStatement(st)
      [] method = "variable_definition_statement" -> VariableDefinitionStatement(st)
      [] method = "tuple_destructing" -> TupleDestructing(st)
      [] method = "inferred_definition_statement" -> InferredDefinitionStatement(st)
      [] method = "simple_statement" -> SimpleStatement(st)
      [] method = "return_statement" -> ReturnStatement(st)
      [] method = "inline_assembly_block" -> InlineAssemblyBlock(st)
      [] method = "inline_assembly_statement" -> InlineAssemblyStatement(st)
      [] method = "parameter_list" -> ParameterList(st)
      [] method = "modifier_definition" -> ModifierDefinition(st)
      [] method = "state_variable_declaration" -> StateVariableDeclaration(st)
      [] method = "using_for_declaration" -> UsingForDeclaration(st)
      [] method = "struct_defintion" -> StructDefinition(st)
      [] method = "indexed_parameter" -> IndexedParameter(st)
      [] method = "event_definition" -> EventDefinition(st)
      [] method = "enum_definition" -> EnumDefinition(st)
      [] method = "function_definition" -> FunctionDefinition(st)
      [] method = "contract_part" -> ContractPart(st)
      [] method = "contract_definition" -> ContractDefinition(st)
      [] method = "prefix_expression" -> PrefixExpression(st)
      [] method = "lut" -> NestedHandler(T.P, st, T.left)

-----------------------------------------------------------------------------
(* The parser as a state machine                                           *)

\* Parser::new(source): the lexer is on the first token, no error yet
NewParser(sources) ==
    /\ source \in sources
    /\ lexer = 1
    /\ errors = <<>>
    /\ result = None
    /\ call = [op |-> "new", param |-> ""]

\* the parser state a method starts from
Entry == [pos |-> lexer, errs |-> errors]

\* a method returned r: the parser is left in r.st
Returned(op, param, r) ==
    /\ lexer' = r.st.pos
    /\ errors' = r.st.errs
    /\ result' = r.node
    /\ call' = [op |-> op, param |-> param]
    /\ UNCHANGED source

-----------------------------------------------------------------------------
(* Sources of the expression engine: operand/operator chains               *)

MaxChainLen == 5
MaxCondLen == 9

\* the lexemes of the tokens that have a nested handler, and the closers
NestedLexemes ==
    {l \in Lexemes : TokenOf[l] \in DOMAIN TopPrecedence} \cup {")", "]", ":", ","}

CondLexemes == {"?", ":", "=", "+"}

RECURSIVE ChainsLen(_, _)
\* the chains of n lexemes: operand "a" at odd places, one of ops at even places
ChainsLen(ops, n) ==
    IF n = 0 THEN {<<>>}
    ELSE {Append(s, x) : s \in ChainsLen(ops, n - 1),
                         x \in IF n % 2 = 1 THEN {"a"} ELSE ops}

\* an operator with no right operand: a lexeme that starts no expression
\* stands in its place, at the end of the source or in front of an operand
BrokenOperands ==
    {<<"a", o, x>> \o rest :
        o \in {"+", "*", "&&", "=", "+="}, x \in {")", ";", "*", "="},
        rest \in {<<>>, <<"a">>}}

ExprSources ==
    UNION {ChainsLen({o1, o2}, n) :
             o1 \in NestedLexemes, o2 \in NestedLexemes, n \in 1..MaxChainLen}
    \cup UNION {ChainsLen(CondLexemes, n) : n \in 1..MaxCondLen}
    \cup BrokenOperands

InitExpr == NewParser(ExprSources)

\* a call of Parser::expression::<P>
ParseExpression ==
    /\ call.op = "new"
    /\ \E P \in Precedences :
          Returned("expression", P, Parser("expression", P, Entry))

NextExpr == ParseExpression

SpecExpr == InitExpr /\ [][NextExpr]_vars

-----------------------------------------------------------------------------
(* Sources of the statement engine: statements nested to a bounded depth,  *)
(* and each of them with one lexeme dropped                                *)

MaxDepth == 2
MaxItems == 2

RECURSIVE SeqsUpTo(_, _)
\* the sequences of at most n elements of S
SeqsUpTo(S, n) ==
    IF n = 0 THEN {<<>>}
    ELSE SeqsUpTo(S, n - 1)
         \cup {Append(q, x) : q \in SeqsUpTo(S, n - 1), x \in S}

RECURSIVE Join(_, _)
\* the sequences of ss one after the other, with sep between them
Join(ss, sep) ==
    IF Len(ss) = 0 THEN <<>>
    ELSE IF Len(ss) = 1 THEN ss[1]
    ELSE ss[1] \o sep \o Join(Tail(ss), sep)

CoreStatements == {<<"_", ";">>, <<"continue", ";">>}

OtherStatements ==
    {<<"a", ";">>, <<"break", ";">>, <<"throw", ";">>, <<"return", ";">>, <<"return", "a", ";">>,
     <<"var", "a", "=", "a", ";">>, <<"var", "(", "a", ",", ",", "a", ")", "=", "a", ";">>,
     <<"uint", "a", ";">>, <<"uint", "memory", "a", "=", "a", ";">>,
     <<"_", "=", "1", ";">>, <<"_", ".", "a", ";">>,
     <<"{", "while", "(", "a", ")", "{", "break", ";", "}", "break", ";", "}">>,
     <<"if", "(", "a", ")", "if", "(", "b", ")", "a", ";", "else", "b", ";">>,
     <<"if", "(", "a", ")", "a", ";", "else">>,
     <<"for", "(", "_", ";", ";", ")", "a", ";">>,
     <<"for", "(", "continue", ";", ";", ")", "a", ";">>,
     <<"for", "(", "{", "}", ";", ")", "a", ";">>,
     <<"for", "(", "if", "(", "a", ")", "a", ";", ";", ")", "a", ";">>,
     <<"assembly", "{", "}">>, <<"assembly", "\"s\"", "{", "}">>,
     <<"for", "(", "uint", "a", "=", "1", ";", "a", "<", "1", ";", "a", "++", ")", "break", ";">>,
     <<"for", "(", "var", "a", "=", "1", ";", ";", ")", "a", ";">>,
     <<"for", "(", "a", "=", "1", ";", ";", ")", "a", ";">>}

\* the statements built around the statement s
Around(s) ==
    {<<"{">> \o s \o <<"}">>,
     <<"{", "a", ";">> \o s \o <<"}">>,
     <<"if", "(", "a", ")">> \o s,
     <<"if", "(", "a", ")", "a", ";", "else">> \o s,
     <<"while", "(", "a", ")">> \o s,
     <<"for", "(", ";", ";", ")">> \o s,
     <<"do">> \o s \o <<"while", "(", "a", ")", ";">>}

RECURSIVE Statements(_)
\* the statements nested at most d deep
Statements(d) ==
    IF d = 0 THEN CoreStatements
    ELSE CoreStatements \cup {<<"{", "}">>}
         \cup UNION {Around(s) : s \in Statements(d - 1)}

\* s with its i-th lexeme dropped
Drop(s, i) == SubSeq(s, 1, i - 1) \o SubSeq(s, i + 1, Len(s))

Damaged(s) == {Drop(s, i) : i \in 1..Len(s)}

WithDamaged(S) == S \cup UNION {Damaged(s) : s \in S}

\* what stands at a place of a tuple of names: nothing, or a name
IdSources == {<<>>, <<"a">>, <<"b">>}

\* the tuples of at most MaxItems + 1 places; `( )` is one of them
VarTuple(ids) == <<"(">> \o Join(ids, <<",">>) \o <<")">>

VarTuples == {VarTuple(ids) : ids \in SeqsUpTo(IdSources, MaxItems + 1)}

\* a var definition: its head, `=`, and its initializer
VarDefinition(head) == <<"var">> \o head \o <<"=", "a", ";">>

VarSources == {VarDefinition(head) : head \in VarTuples \cup {<<"a">>}}

StatementSources ==
    WithDamaged(Statements(MaxDepth) \cup OtherStatements
                \cup UNION {Around(s) : s \in OtherStatements}
                \cup VarSources)

ModifierHeads ==
    {<<"modifier", "a">>, <<"modifier", "a", "(", ")">>,
     <<"modifier", "a", "(", "uint", "a", ",", "a", ")">>}

\* the block b with another lexeme in the place of its opening brace
WrongOpen(b) == {<<x>> \o Tail(b) : x \in {";", "a", "continue"}}

ModifierBlocks == {b \in Statements(MaxDepth) : b[1] = "{"}

ModifierSources ==
    {h \o s : h \in ModifierHeads,
              s \in WithDamaged(ModifierBlocks)
                    \cup UNION {WrongOpen(b) : b \in Statements(1) \cap ModifierBlocks}}

InitStmt == NewParser(StatementSources \cup ModifierSources)

\* a call of Parser::statement::<Context>
ParseStatement ==
    /\ call.op = "new"
    /\ \E Context \in StatementContexts :
          Returned("statement", Context, Parser("statement", Context, Entry))

\* a call of Parser::simple_statement
ParseSimpleStatement ==
    /\ call.op = "new"
    /\ Returned("simple_statement", "", Parser("simple_statement", "", Entry))

\* contract_part calls Parser::modifier_definition on the modifier keyword
ParseModifierDefinition ==
    /\ call.op = "new"
    /\ TokenAt(lexer) = "DeclarationModifier"
    /\ Returned("modifier_definition", "", Parser("modifier_definition", "", Entry))

NextStmt == ParseStatement \/ ParseSimpleStatement \/ ParseModifierDefinition

SpecStmt == InitStmt /\ [][NextStmt]_vars

-----------------------------------------------------------------------------
(* Sources of the contract engine: contract parts with bounded lists, each *)
(* also with one lexeme dropped, and contracts of such parts               *)

MaxFlags == 3

FlagLexemes == {"public", "internal", "private", "constant"}

StateVariableSources ==
    {<<"uint">> \o f \o <<"a">> \o i \o <<";">> :
        f \in SeqsUpTo(FlagLexemes, MaxFlags), i \in {<<>>, <<"=", "1">>}}
    \cup WithDamaged({<<"a", "public", "b", "=", "a", ";">>})

UsingForSources ==
    {<<"using", "a", "for", "*", ";">>, <<"using", "a", "for", "uint", ";">>,
     <<"using", "a", "for", "b", ";">>, <<"using", "a", "for", "1", ";">>}

FieldSources ==
    {<<"uint", "a", ";">>, <<"uint", "storage", "b", ";">>, <<"a", "b", ";">>}

\* a struct: its name and its fields
Struct(fs) == <<"struct", "a", "{">> \o Join(fs, <<>>) \o <<"}">>

StructSources == {Struct(fs) : fs \in SeqsUpTo(FieldSources, MaxItems)}

ParameterSources ==
    {<<"uint">>, <<"uint", "indexed">>, <<"uint", "a">>, <<"uint", "indexed", "b">>}

\* an event: its name, its parameters, and `anonymous` or nothing
Event(ps, an) ==
    <<"event", "a", "(">> \o Join(ps, <<",">>) \o <<")">> \o an \o <<";">>

AnonymousSources == {<<>>, <<"anonymous">>}

EventSources ==
    {Event(ps, an) : ps \in SeqsUpTo(ParameterSources, MaxItems),
                     an \in AnonymousSources}

NameSources == {<<"a">>, <<"b">>}

\* an enum: its name and its variants
Enum(vs) == <<"enum", "a", "{">> \o Join(vs, <<",">>) \o <<"}">>

EnumSources == {Enum(vs) : vs \in SeqsUpTo(NameSources, MaxItems)}

FunctionSources ==
    {<<"function", "a", "(", ")", "{", "a", ";", "}">>,
     <<"function", "(", ")", ";">>,
     <<"function", "a", "(", "uint", "a", ")", "{", "_", ";", "}">>,
     <<"modifier", "a", "{", "_", ";", "}">>}

PartSources ==
    StateVariableSources
    \cup WithDamaged(UsingForSources \cup StructSources \cup EventSources
                     \cup EnumSources \cup FunctionSources)

\* one part of each form
CoreParts ==
    {<<"uint", "public", "a", ";">>, <<"using", "a", "for", "*", ";">>,
     <<"struct", "a", "{", "uint", "a", ";", "}">>,
     <<"modifier", "a", "{", "_", ";", "}">>,
     <<"function", "a", "(", ")", "{", "a", ";", "}">>,
     <<"event", "a", "(", "uint", "indexed", "a", ")", ";">>,
     <<"enum", "a", "{", "a", ",", "b", "}">>}

\* the names a contract inherits
Is(ns) == IF ns = <<>> THEN <<>> ELSE <<"is">> \o Join(ns, <<",">>)

InheritSources == {Is(ns) : ns \in SeqsUpTo(NameSources, MaxItems)}

\* a contract: its name, the names it inherits, and its parts
Contract(is, parts) ==
    <<"contract", "a">> \o is \o <<"{">> \o Join(parts, <<>>) \o <<"}">>

\* lexemes that start no contract part
JunkLexemes == {";", ")", "1", "contract"}

ContractSources ==
    WithDamaged({Contract(is, parts) :
                    is \in InheritSources, parts \in SeqsUpTo(CoreParts, 1)})
    \cup {Contract(<<>>, parts) : parts \in SeqsUpTo(CoreParts, MaxItems)}
    \cup {Contract(<<>>, <<part, <<junk>>>>) :
             part \in CoreParts, junk \in JunkLexemes}

InitContract == NewParser(ContractSources \cup PartSources)

\* the source-unit loop calls Parser::contract_definition on the contract
\* keyword
ParseContractDefinition ==
    /\ call.op = "new"
    /\ TokenAt(lexer) = "DeclarationContract"
    /\ Returned("contract_definition", "", Parser("contract_definition", "", Entry))

\* a call of Parser::contract_part, as the part loop of a contract makes it
ParseContractPart ==
    /\ call.op = "new"
    /\ Returned("contract_part", "", Parser("contract_part", "", Entry))

NextContract == ParseContractDefinition \/ ParseContractPart

SpecContract == InitContract /\ [][NextContract]_vars

-----------------------------------------------------------------------------
(* The loops of the parser, one iteration at a time.  A loop is entered    *)
(* with the lexer on the first token of what it iterates over; call.op     *)
(* names the loop that is running, and "returned" that it was left.        *)

LoopStatements ==
    CoreStatements
    \cup {<<"{", "}">>, <<"a", ";">>, <<"uint", "a", ";">>, <<"return", ";">>,
          <<"if", "(", "a", ")", "a", ";">>,
          <<"while", "(", "a", ")", "continue", ";">>}

LoopLexemes == CondLexemes \cup {"*", "++", "(", "."}

LoopSources ==
    {Join(parts, <<>>) \o <<"}">> : parts \in SeqsUpTo(CoreParts, MaxItems)}
    \cup {Join(ss, <<>>) \o <<"}">> : ss \in SeqsUpTo(LoopStatements, MaxItems)}
    \cup UNION {ChainsLen(LoopLexemes, n) : n \in 1..MaxChainLen}
    \cup {<<",">> \o Join(ps, <<",">>) \o <<")">> :
             ps \in SeqsUpTo(ParameterSources \cup {<<>>}, MaxItems)}

InitLoops == NewParser(LoopSources)

Running(loop, param) ==
    call.op = "new" \/ (call.op = loop /\ call.param = param)

\* `while let Some(node) = r`: the loop goes on with the node of r, or is
\* left when r has none
WhileLetSome(loop, param, r) ==
    IF IsNone(r.node) THEN Returned("returned", loop, R(result, r.st))
    ELSE Returned(loop, param, r)

\* an iteration of `while let Some(part) = self.contract_part()`
ContractPartIteration ==
    /\ Running("contract_body", "")
    /\ WhileLetSome("contract_body", "", Parser("contract_part", "", Entry))

\* an iteration of `while let Some(statement) = self.statement::<Context>()`
BlockIteration(Context) ==
    /\ Running("block", Context)
    /\ WhileLetSome("block", Context, Parser("statement", Context, Entry))

\* expression::<P> up to the loop of nested_expression::<P>: the prefix
\* expression is the first left operand
ExpressionPrefix(P) ==
    /\ call.op = "new"
    /\ WhileLetSome("nested_expression", P,
                    Parser("prefix_expression", "", Entry))

\* an iteration of the `while let Some(node) = ...` of nested_expression::<P>,
\* with result as the left operand
NestedExpressionIteration(P) ==
    /\ call.op = "nested_expression"
    /\ call.param = P
    /\ WhileLetSome("nested_expression", P,
                    Parser("lut", [P |-> P, left |-> result], Entry))

\* the body of the `while self.allow(Token::Comma)` of event_definition
EventParameter(param) ==
    IF IsSome(param.node) THEN Returned("event_parameters", "", param)
    ELSE Returned("event_parameters", "", R(result, Error(param.st)))

\* an iteration of the `while self.allow(Token::Comma)` of event_definition
EventParameterIteration ==
    /\ Running("event_parameters", "")
    /\ IF ~Allow(Entry, "Comma").ok
       THEN Returned("returned", "event_parameters", R(result, Entry))
       ELSE EventParameter(Parser("indexed_parameter", "",
                                  Allow(Entry, "Comma").st))

NextLoops ==
    \/ ContractPartIteration
    \/ \E Context \in StatementContexts : BlockIteration(Context)
    \/ \E P \in Precedences : ExpressionPrefix(P)
    \/ \E P \in Precedences : NestedExpressionIteration(P)
    \/ EventParameterIteration

\* a loop that can make an iteration makes it
SpecLoops == InitLoops /\ [][NextLoops]_vars /\ WF_vars(NextLoops)

-----------------------------------------------------------------------------
(* Reading the trees the parser returns                                    *)

\* the nodes directly under n, in source order (an absent one is None)
Children(n) ==
    CASE n.kind \in {"BinaryExpression", "AssignmentExpression"} -> <<n.left, n.right>>
      [] n.kind = "ConditionalExpression" -> <<n.test, n.consequent, n.alternate>>
      [] n.kind = "CallExpression" -> <<n.callee>> \o n.arguments
      [] n.kind = "MemberAccessExpression" -> <<n.object>>
      [] n.kind = "IndexAccessExpression" -> <<n.array, n.index>>
      [] n.kind = "PostfixExpression" -> <<n.operand>>
      [] n.kind = "TupleExpression" -> n.expressions
      [] n.kind = "ExpressionStatement" -> <<n.expression>>
      [] n.kind = "Block" -> n.body
      [] n.kind = "IfStatement" -> <<n.test, n.consequent, n.alternate>>
      [] n.kind = "WhileStatement" -> <<n.test, n.body>>
      [] n.kind = "ForStatement" -> <<n.init, n.test, n.update, n.body>>
      [] n.kind = "DoWhileStatement" -> <<n.body, n.test>>
      [] n.kind = "ReturnStatement" -> <<n.value>>
      [] n.kind = "VariableDefinitionStatement" -> <<n.init>>
      [] n.kind = "InferredDefinitionStatement" -> <<n.init>>
      [] n.kind = "ModifierDefinition" -> <<n.block>>
      [] OTHER -> <<>>

\* an error was recorded with the lexer on the token at position p
ErrorAt(p) == \E i \in DOMAIN errors : errors[i] = p

LoopKinds == {"WhileStatement", "ForStatement", "DoWhileStatement"}

\* the operand "a" at place p of the source
OperandAt(n, p) == n.kind = "Identifier" /\ n.start = p /\ n.end = p + 1

\* a binary expression whose operator is the lexeme at place p
BinaryAt(n, p) == n.kind = "BinaryExpression" /\ n.operator.start = p

\* an assignment whose operator is the lexeme at place p
AssignmentAt(n, p) == n.kind = "AssignmentExpression" /\ n.operator.start = p

\* a conditional whose test is the operand at place p and whose consequent
\* is the operand at place p + 2
ConditionalAt(n, p) ==
    /\ n.kind = "ConditionalExpression"
    /\ OperandAt(n.test, p)
    /\ OperandAt(n.consequent, p + 2)

\* ((a1 op2 a3) op4 a5)
LeftNested(n) ==
    /\ BinaryAt(n, 4)
    /\ BinaryAt(n.left, 2)
    /\ OperandAt(n.left.left, 1)
    /\ OperandAt(n.left.right, 3)
    /\ OperandAt(n.right, 5)

\* (a1 op2 (a3 op4 a5))
RightNested(n) ==
    /\ BinaryAt(n, 2)
    /\ OperandAt(n.left, 1)
    /\ BinaryAt(n.right, 4)
    /\ OperandAt(n.right.left, 3)
    /\ OperandAt(n.right.right, 5)

\* the precedence levels of the binary operators (lower binds tighter)
BinaryLevel ==
    [OperatorExponent |-> 3,
     OperatorMultiplication |-> 4, OperatorDivision |-> 4, OperatorRemainder |-> 4,
     OperatorAddition |-> 5, OperatorSubtraction |-> 5,
     OperatorBitShiftLeft |-> 6, OperatorBitShiftRight |-> 6,
     OperatorBitAnd |-> 7, OperatorBitXor |-> 8, OperatorBitOr |-> 9,
     OperatorLesser |-> 10, OperatorLesserEquals |-> 10,
     OperatorGreater |-> 10, OperatorGreaterEquals |-> 10,
     OperatorEquality |-> 11, OperatorInequality |-> 11,
     OperatorLogicalAnd |-> 12, OperatorLogicalOr |-> 13]

BinaryTokens == DOMAIN BinaryLevel

LeftAssociativeTokens == {t \in BinaryTokens : BinaryLevel[t] \in 4..13}

AssignTokens ==
    {"Assign", "AssignAddition", "AssignSubtraction", "AssignMultiplication",
     "AssignDivision", "AssignRemainder", "AssignBitShiftLeft",
     "AssignBitShiftRight", "AssignBitAnd", "AssignBitXor", "AssignBitOr"}

\* expression::<P> returned, having parsed a chain a op a op a whose two
\* operators both have a handler at P
ChainParsed ==
    /\ call.op = "expression"
    /\ Len(source) = 5
    /\ TokenOf[source[2]] \in DOMAIN LUT(call.param)
    /\ TokenOf[source[4]] \in DOMAIN LUT(call.param)

-----------------------------------------------------------------------------
(* Properties of the expression engine                                     *)

\* C1: a chain a op b op c of left-associative binary operators of one
\* precedence level (levels 4 to 13) parses to ((a op b) op c).
C1_LeftAssociativeChain ==
    (/\ ChainParsed
     /\ TokenOf[source[2]] \in LeftAssociativeTokens
     /\ TokenOf[source[4]] \in LeftAssociativeTokens
     /\ BinaryLevel[TokenOf[source[2]]] = BinaryLevel[TokenOf[source[4]]])
    => LeftNested(result)

\* C2: of two binary operators of different precedence levels the tighter
\* one (numerically lower) binds first: a op1 b op2 c is ((a op1 b) op2 c)
\* when op1 is tighter and (a op1 (b op2 c)) when op2 is tighter.
C2_TighterBindsFirst ==
    (/\ ChainParsed
     /\ TokenOf[source[2]] \in BinaryTokens
     /\ TokenOf[source[4]] \in BinaryTokens)
    => /\ BinaryLevel[TokenOf[source[2]]] < BinaryLevel[TokenOf[source[4]]]
            => LeftNested(result) /\ lexer = 6 /\ errors = <<>>
       /\ BinaryLevel[TokenOf[source[2]]] > BinaryLevel[TokenOf[source[4]]]
            => RightNested(result) /\ lexer = 6 /\ errors = <<>>

\* C2 witness: a * a + a was parsed at TopPrecedence, to ((a * a) + a)
C2_Witness ==
    /\ call.op = "expression"
    /\ call.param = "TopPrecedence"
    /\ source = <<"a", "*", "a", "+", "a">>
    /\ LeftNested(result)

\* C3: assignment operators are right-associative at TopPrecedence:
\* a op1 b op2 c, both assignment operators, is Assignment(a, Assignment(b, c)),
\* each node spanning from its left operand's start to its right operand's end.
C3_AssignmentRightAssociative ==
    (/\ ChainParsed
     /\ call.param = "TopPrecedence"
     /\ TokenOf[source[2]] \in AssignTokens
     /\ TokenOf[source[4]] \in AssignTokens)
    => /\ AssignmentAt(result, 2)
       /\ result.operator.kind = AssignHandlers[TopPrecedence[TokenOf[source[2]]]]
       /\ OperandAt(result.left, 1)
       /\ AssignmentAt(result.right, 4)
       /\ OperandAt(result.right.left, 3)
       /\ OperandAt(result.right.right, 5)
       /\ result.start = result.left.start /\ result.end = result.right.end
       /\ result.right.start = 3 /\ result.right.end = 6
       /\ lexer = 6 /\ errors = <<>>

\* C3 witness: a = a += a was parsed, to an assignment whose right operand
\* is the assignment a += a
C3_Witness ==
    /\ call.op = "expression"
    /\ source = <<"a", "=", "a", "+=", "a">>
    /\ AssignmentAt(result, 2)
    /\ AssignmentAt(result.right, 4)

RECURSIVE NoAssignmentInBranch(_)
\* no conditional in the tree n has an assignment as consequent or alternate
NoAssignmentInBranch(n) ==
    /\ n.kind = "ConditionalExpression"
          => /\ n.consequent.kind # "AssignmentExpression"
             /\ n.alternate.kind # "AssignmentExpression"
    /\ \A i \in DOMAIN Children(n) : NoAssignmentInBranch(Children(n)[i])

\* C4: the conditional operator is right-associative and its branches are
\* parsed at level 14: a ? b : c ? d : e is Conditional(a, b, Conditional(c, d, e)),
\* no branch of a conditional is an assignment, and a ? b : c = d is
\* Assignment(Conditional(a, b, c), d).
C4_ConditionalRightAssociative ==
    call.op = "expression" =>
       /\ NoAssignmentInBranch(result)
       /\ (/\ source = <<"a", "?", "a", ":", "a", "?", "a", ":", "a">>
           /\ call.param \in {"TopPrecedence", "Precedence14"})
          => /\ ConditionalAt(result, 1)
             /\ ConditionalAt(result.alternate, 5)
             /\ OperandAt(result.alternate.alternate, 9)
             /\ result.start = 1 /\ result.end = 10
             /\ lexer = 10 /\ errors = <<>>
       /\ (/\ source = <<"a", "?", "a", ":", "a", "=", "a">>
           /\ call.param = "TopPrecedence")
          => /\ AssignmentAt(result, 6)
             /\ ConditionalAt(result.left, 1)
             /\ OperandAt(result.left.alternate, 5)
             /\ OperandAt(result.right, 7)
             /\ lexer = 8 /\ errors = <<>>

\* C4 witness: a ? a : a ? a : a was parsed at TopPrecedence, to a
\* conditional whose alternate is a conditional
C4_Witness ==
    /\ call.op = "expression"
    /\ call.param = "TopPrecedence"
    /\ source = <<"a", "?", "a", ":", "a", "?", "a", ":", "a">>
    /\ result.kind = "ConditionalExpression"
    /\ result.alternate.kind = "ConditionalExpression"

\* the precedence levels by number: TopPrecedence is level 15
Level ==
    [TopPrecedence |-> 15, Precedence14 |-> 14, Precedence13 |-> 13,
     Precedence12 |-> 12, Precedence11 |-> 11, Precedence10 |-> 10,
     Precedence9 |-> 9, Precedence8 |-> 8, Precedence7 |-> 7,
     Precedence6 |-> 6, Precedence5 |-> 5, Precedence4 |-> 4,
     Precedence3 |-> 3, Precedence2 |-> 2]

\* the operator precedence of a nested handler: 2 for the postfix forms, the
\* level of a binary operator, 14 for the conditional, 15 for the assignments
OpPrecedence(handler) ==
    CASE handler \in {"MEMBR", "CALL", "INDEX", "INC", "DEC"} -> 2
      [] handler = "EXPN" -> 3
      [] handler \in {"MUL", "DIV", "REM"} -> 4
      [] handler \in {"ADD", "SUB"} -> 5
      [] handler \in {"BSL", "BSR"} -> 6
      [] handler = "B_AND" -> 7
      [] handler = "B_XOR" -> 8
      [] handler = "B_OR" -> 9
      [] handler \in {"LESS", "LSEQ", "GRTR", "GREQ"} -> 10
      [] handler \in {"EQ", "INEQ"} -> 11
      [] handler = "AND" -> 12
      [] handler = "OR" -> 13
      [] handler = "COND" -> 14
      [] handler \in DOMAIN AssignHandlers -> 15

\* the single table: token -> (precedence, handler)
SingleTable ==
    [t \in DOMAIN TopPrecedence |->
        [precedence |-> OpPrecedence(TopPrecedence[t]),
         handler |-> TopPrecedence[t]]]

\* the single table consulted with the predicate opPrecedence <= N
Admissible(t, N) ==
    t \in DOMAIN SingleTable /\ SingleTable[t].precedence <= N

Tokens == {TokenOf[l] : l \in Lexemes} \cup {"EndOfProgram"}

\* the tables of the levels against the single table
TablesAgree ==
    /\ \A P \in Precedences, t \in Tokens :
          /\ t \in DOMAIN LUT(P) <=> Admissible(t, Level[P])
          /\ t \in DOMAIN LUT(P) => LUT(P)[t] = SingleTable[t].handler
    /\ \A h \in DOMAIN BinaryHandlers :
          Level[BinaryHandlers[h].precedence] = OpPrecedence(h)

\* C22: at every precedence level N and for every token t, the table of the
\* level has a handler for t exactly when the operator precedence of t is at
\* most N, and it is the handler of the single table; the precedence of a
\* binary handler is the level its right operand is parsed at; and a parse of
\* a OP ... at level N takes the operator exactly when the single table
\* consulted with opPrecedence <= N admits it
C22_TablesAsSingleTable ==
    /\ TablesAgree
    /\ (call.op = "expression" /\ Len(source) >= 2 /\ source[1] = "a")
          => (lexer > 2 <=> Admissible(TokenAt(2), Level[call.param]))

\* C22 witness: a | a < a was parsed at Precedence9, which took | and
\* stopped at <
C22_Witness ==
    /\ call.op = "expression"
    /\ call.param = "Precedence9"
    /\ source = <<"a", "|", "a", "<", "a">>
    /\ BinaryAt(result, 2)
    /\ OperandAt(result.right, 3)
    /\ lexer = 4
    /\ errors = <<>>

\* the node ends with the token `closing`, or where that token was missed
EndsAtClosing(n, closing) ==
    \/ TokenAt(n.end - 1) = closing
    \/ ErrorAt(n.end - 1) \/ ErrorAt(n.end)

\* the node n, built by a nested handler, spans from its left operand to
\* the end of what the handler read last
HandlerSpan(n) ==
    CASE n.kind \in {"BinaryExpression", "AssignmentExpression"} ->
            n.start = n.left.start /\ n.end = n.right.end
      [] n.kind = "ConditionalExpression" ->
            n.start = n.test.start /\ n.end = n.alternate.end
      [] n.kind = "MemberAccessExpression" ->
            n.start = n.object.start /\ n.end = n.member.end
      [] n.kind = "PostfixExpression" ->
            /\ n.start = n.operand.start /\ n.end = n.operator.end
            /\ n.operator.start = n.operand.end
      [] n.kind = "CallExpression" ->
            n.start = n.callee.start /\ EndsAtClosing(n, "ParenClose")
      [] n.kind = "IndexAccessExpression" ->
            n.start = n.array.start /\ EndsAtClosing(n, "BracketClose")
      [] OTHER -> TRUE

RECURSIVE HandlerSpans(_)
\* HandlerSpan of every node of the tree n
HandlerSpans(n) ==
    /\ HandlerSpan(n)
    /\ \A i \in DOMAIN Children(n) : HandlerSpans(Children(n)[i])

\* the expression starts where the prefix expression of the source starts
StartsAtPrefix(prefix) == IsSome(prefix.node) /\ result.start = prefix.node.start

\* C27: every node built by a nested handler starts at the start of its
\* left operand and ends at the end of the handler's last read: the right
\* operand of a binary operator or an assignment, the alternate of a
\* conditional, the member of an access, the operator of a postfix
\* expression, the closing parenthesis or bracket of a call or an index; and
\* an expression starts where its prefix expression starts
C27_HandlerSpans ==
    (call.op = "expression" /\ IsSome(result))
    => /\ HandlerSpans(result)
       /\ StartsAtPrefix(Parser("prefix_expression", "", [pos |-> 1, errs |-> <<>>]))

\* C27 witness: a [ a ] was parsed to an index access that starts at the
\* array and ends behind the closing bracket
C27_Witness ==
    /\ call.op = "expression"
    /\ source = <<"a", "[", "a", "]">>
    /\ result.kind = "IndexAccessExpression"
    /\ OperandAt(result.array, 1)
    /\ OperandAt(result.index, 3)
    /\ result.start = 1 /\ result.end = 5
    /\ errors = <<>>

\* tokens that start no expression
NonStarters ==
    {"EndOfProgram", "ParenClose", "BracketClose", "Semicolon", "Comma",
     "Colon", "OperatorMultiplication", "Assign"}

\* the token at place p has a binary! or an assign! handler at level P
OperatorAt(p, P) ==
    /\ TokenAt(p) \in DOMAIN LUT(P)
    /\ LUT(P)[TokenAt(p)] \in DOMAIN BinaryHandlers \cup DOMAIN AssignHandlers

RECURSIVE NoOperatorNodeAt(_, _)
\* no binary or assignment node of the tree n has its operator at place p
NoOperatorNodeAt(n, p) ==
    /\ n.kind \in {"BinaryExpression", "AssignmentExpression"} => n.operator.start # p
    /\ \A i \in DOMAIN Children(n) : NoOperatorNodeAt(Children(n)[i], p)

\* C30: when the token behind a binary or assignment operator starts no
\* expression, the handler records one error, at that token; the operator
\* stays consumed, no node is built for it, and the loop of
\* nested_expression stops with its left operand: a OP x ... parsed at a
\* level that admits OP is the identifier a, with the lexer left on x and
\* the one error; and nowhere in a tree is there a node for an operator
\* that stands in front of such a token
C30_MissingRightOperand ==
    call.op = "expression" =>
       /\ (/\ TokenAt(1) = "Identifier"
           /\ OperatorAt(2, call.param)
           /\ TokenAt(3) \in NonStarters)
             => /\ OperandAt(result, 1)
                /\ lexer = 3
                /\ errors = <<3>>
       /\ \A p \in 2..Len(source) :
             (OperatorAt(p, "TopPrecedence") /\ TokenAt(p + 1) \in NonStarters)
                => NoOperatorNodeAt(result, p)

\* C30 witness: a + * a was parsed at TopPrecedence: the result is the
\* first a, the + is consumed and the * is not, with one error at the *
C30_Witness ==
    /\ call.op = "expression"
    /\ call.param = "TopPrecedence"
    /\ source = <<"a", "+", "*", "a">>
    /\ OperandAt(result, 1)
    /\ lexer = 3
    /\ errors = <<3>>

-----------------------------------------------------------------------------
(* Properties of the statement engine                                      *)

JumpKinds == {"ContinueStatement", "BreakStatement"}

FunctionContexts == {"FunctionContext", "FunctionLoopContext"}

\* the contexts a function body or a modifier body starts in
BodyContexts == {"FunctionContext", "ModifierContext"}

\* statement::<Context> returned, for one of the contexts K
StatementParsed(K) == call.op = "statement" /\ call.param \in K

\* the source starts with the lexemes of s
StartsWith(s) == Len(source) >= Len(s) /\ SubSeq(source, 1, Len(s)) = s

\* the expression statement _ ; at place p
PlaceholderAsExpression(n, p) ==
    /\ n.kind = "ExpressionStatement"
    /\ n.start = p /\ n.end = p + 2
    /\ n.expression.kind = "Identifier"
    /\ n.expression.value = "_"
    /\ n.expression.start = p /\ n.expression.end = p + 1

RECURSIVE NoPlaceholder(_)
\* the tree n holds no Placeholder node
NoPlaceholder(n) ==
    /\ n.kind # "Placeholder"
    /\ \A i \in DOMAIN Children(n) : NoPlaceholder(Children(n)[i])

RECURSIVE HasKind(_, _)
\* the tree n holds a node of one of the kinds K
HasKind(n, K) ==
    \/ n.kind \in K
    \/ \E i \in DOMAIN Children(n) : HasKind(Children(n)[i], K)

\* C5: a Placeholder node is produced only under ModifierContext or
\* ModifierLoopContext; under FunctionContext and FunctionLoopContext no
\* tree holds a Placeholder at any depth, and the tokens _ ; there yield an
\* expression statement whose expression is the identifier _.
C5_PlaceholderOnlyInModifiers ==
    /\ StatementParsed(FunctionContexts)
          => /\ NoPlaceholder(result)
             /\ StartsWith(<<"_", ";">>) => PlaceholderAsExpression(result, 1)
             /\ StartsWith(<<"{", "_", ";">>)
                   => result.kind = "Block" /\ PlaceholderAsExpression(result.body[1], 2)
    /\ call.op = "simple_statement" => NoPlaceholder(result)
    /\ (StatementParsed({"ModifierContext", "ModifierLoopContext"})
        /\ StartsWith(<<"_", ";">>))
          => result.kind = "Placeholder" /\ result.start = 1 /\ result.end = 3

\* C5 witness: under FunctionContext a loop body _ ; inside a block came
\* out as an expression statement
C5_Witness ==
    /\ StatementParsed({"FunctionContext"})
    /\ source = <<"{", "while", "(", "a", ")", "_", ";", "}">>
    /\ result.kind = "Block"
    /\ result.body[1].kind = "WhileStatement"
    /\ PlaceholderAsExpression(result.body[1].body, 6)

\* C6 as stated: parsing _ ; as a statement under FunctionContext records
\* a parse error.
C6_PlaceholderInFunctionIsError ==
    (StatementParsed({"FunctionContext"}) /\ StartsWith(<<"_", ";">>))
    => errors # <<>>

\* C6 amended: parsing _ ; as a statement under FunctionContext records no
\* error; it yields the expression statement of the identifier _ and leaves
\* the lexer behind the semicolon.
C6_PlaceholderInFunctionIsExpression ==
    (StatementParsed({"FunctionContext"}) /\ StartsWith(<<"_", ";">>))
    => /\ errors = <<>>
       /\ PlaceholderAsExpression(result, 1)
       /\ lexer = 3

\* C6 witness: _ ; was parsed under FunctionContext, without an error
C6_Witness ==
    /\ StatementParsed({"FunctionContext"})
    /\ source = <<"_", ";">>
    /\ result.kind = "ExpressionStatement"
    /\ errors = <<>>

RECURSIVE JumpsInLoops(_, _)
\* every ContinueStatement or BreakStatement of the tree n is under a loop
\* statement (inLoop: n itself is)
JumpsInLoops(n, inLoop) ==
    /\ n.kind \in JumpKinds => inLoop
    /\ \A i \in DOMAIN Children(n) :
          JumpsInLoops(Children(n)[i], inLoop \/ n.kind \in LoopKinds)

\* C7: in every tree produced for a function or modifier body, each
\* ContinueStatement or BreakStatement lies within the body of a while, for
\* or do-while statement.
C7_JumpsOnlyInLoops ==
    (\/ StatementParsed(BodyContexts)
     \/ call.op \in {"simple_statement", "modifier_definition"})
    => JumpsInLoops(result, FALSE)

\* C7 witness: under FunctionContext an if inside a loop holds a continue
C7_Witness ==
    /\ StatementParsed({"FunctionContext"})
    /\ result.kind = "WhileStatement"
    /\ result.body.kind = "IfStatement"
    /\ result.body.consequent.kind = "ContinueStatement"

JumpLexemes == {"continue", "break"}

\* the statements that hold s without a loop around it
AroundWithoutLoop(s) ==
    {<<"{">> \o s \o <<"}">>,
     <<"{", "a", ";">> \o s \o <<"}">>,
     <<"if", "(", "a", ")">> \o s,
     <<"if", "(", "a", ")", "a", ";", "else">> \o s}

JumpStatements == {<<"continue", ";">>, <<"break", ";">>}

RECURSIVE StrayJumps(_)
\* continue ; and break ; under d or fewer blocks and ifs (at least one) and
\* under no loop
StrayJumps(d) ==
    IF d = 0 THEN {}
    ELSE UNION {AroundWithoutLoop(s) : s \in JumpStatements \cup StrayJumps(d - 1)}

\* the place of the first continue or break of the source
FirstJump == CHOOSE i \in 1..Len(source) :
                /\ source[i] \in JumpLexemes
                /\ \A j \in 1..(i - 1) : source[j] \notin JumpLexemes

\* C8: a continue ; or break ; that is under no loop (directly in a function
\* or modifier body, or in a block or if nested there) makes the parse fail:
\* the statement parser yields nothing at the continue or break token, the
\* block or if around it records an error at that token, which the lexer
\* does not pass, and no ContinueStatement or BreakStatement is built.
C8_StrayJumpFails ==
    /\ (StatementParsed(BodyContexts) /\ source \in JumpStatements)
          => IsNone(result) /\ lexer = 1
    /\ (\/ StatementParsed(BodyContexts) /\ source \in StrayJumps(MaxDepth)
        \/ /\ call.op = "modifier_definition"
           /\ \E h \in ModifierHeads, b \in StrayJumps(MaxDepth) : source = h \o b)
          => /\ errors # <<>>
             /\ errors[1] = FirstJump
             /\ lexer = FirstJump
             /\ ~HasKind(result, JumpKinds)

\* C8 witness: under FunctionContext the block { continue ; } came out
\* empty, with an error
C8_Witness ==
    /\ StatementParsed({"FunctionContext"})
    /\ source = <<"{", "continue", ";", "}">>
    /\ result.kind = "Block"
    /\ result.body = <<>>
    /\ errors # <<>>

StatementCalls == {"statement", "simple_statement", "modifier_definition"}

C10_MissingBraceIsError ==
    (/\ call.op = "modifier_definition"
     /\ result.kind = "ModifierDefinition"
     /\ TokenAt(result.block.start) # "BraceOpen")
    => \E i \in DOMAIN errors : errors[i] = result.block.start

\* statement or simple_statement was called
DefinitionCalls == {"statement", "simple_statement"}

\* the ids of a var definition are those of the places of its tuple: None
\* at a hole and the name at a named place, one for one
IdsParsed(list, ids) ==
    /\ Len(list) = Len(ids)
    /\ \A i \in DOMAIN ids :
          IF ids[i] = <<>> THEN IsNone(list[i])
          ELSE IsSome(list[i]) /\ list[i].value = ids[i][1]

\* C19: a var definition with one name has that name as its one id; with
\* `( )` it has no id; with any other tuple it has one id for each place,
\* that is one more than there are commas, None at the holes and the names
\* at the named places, in order; and without `=` or without the
\* initializer the parse records an error
C19_VarIds ==
    (call.op \in DefinitionCalls /\ TokenAt(1) = "DeclarationVar") =>
        /\ source = VarDefinition(<<"a">>) =>
              /\ IsSome(result) /\ errors = <<>>
              /\ IdsParsed(result.ids, <<<<"a">>>>)
        /\ \A ids \in SeqsUpTo(IdSources, MaxItems + 1) :
              LET head == VarTuple(ids)
              IN  /\ source = VarDefinition(head) =>
                        /\ IsSome(result) /\ errors = <<>>
                        /\ result.kind = "InferredDefinitionStatement"
                        /\ IF head = <<"(", ")">> THEN result.ids = <<>>
                           ELSE IdsParsed(result.ids, ids)
                  /\ source = Drop(VarDefinition(head), Len(head) + 2) =>
                        ErrorAt(Len(head) + 2)
                  /\ source = Drop(VarDefinition(head), Len(head) + 3) =>
                        /\ ErrorAt(Len(head) + 3)
                        /\ IsNone(result)

\* `var ( a , , b ) = a ;`
C19_Witness ==
    /\ call.op = "simple_statement"
    /\ source = VarDefinition(VarTuple(<<<<"a">>, <<>>, <<"b">>>>))
    /\ Len(result.ids) = 3
    /\ result.ids[1].value = "a"
    /\ IsNone(result.ids[2])
    /\ result.ids[3].value = "b"
    /\ errors = <<>>

\* the two permissions of a context
AllowPlaceholder(Context) == Context \in {"ModifierContext", "ModifierLoopContext"}

AllowLoopBreak(Context) == Context \in {"FunctionLoopContext", "ModifierLoopContext"}

Permissions(Context) == <<AllowPlaceholder(Context), AllowLoopBreak(Context)>>

\* the statements that pre_parse may take, and the node each of them makes
ContextStatements == {<<"_", ";">>, <<"continue", ";">>, <<"break", ";">>}

KindOf(s) ==
    CASE s[1] = "_" -> "Placeholder"
      [] s[1] = "continue" -> "ContinueStatement"
      [] s[1] = "break" -> "BreakStatement"

\* a context with the permissions <<placeholder, loop_break>> takes s
Permitted(permissions, s) ==
    IF s[1] = "_" THEN permissions[1] ELSE permissions[2]

\* s as the body of a loop
InLoop(s) ==
    {<<"while", "(", "a", ")">> \o s,
     <<"for", "(", ";", ";", ")">> \o s,
     <<"do">> \o s \o <<"while", "(", "a", ")", ";">>}

\* s in a block or as a branch of an if
InBranch(s) ==
    {<<"{">> \o s \o <<"}">>,
     <<"if", "(", "a", ")">> \o s,
     <<"if", "(", "a", ")", "a", ";", "else">> \o s}

\* the tree that was returned holds the node of s
Taken(s) == HasKind(result, {KindOf(s)})

\* C21: the four contexts are the four values of the pair (allow_placeholder,
\* allow_loop_break); a statement `_ ;` becomes a Placeholder exactly under
\* allow_placeholder and `continue ;` / `break ;` a jump exactly under
\* allow_loop_break; the body of a while, for or do-while is parsed with
\* allow_loop_break set and allow_placeholder as it was, and a block or a
\* branch of an if with both as they were, also one inside the other
C21_ContextsArePermissions ==
    /\ \A C1, C2 \in StatementContexts :
          Permissions(C1) = Permissions(C2) => C1 = C2
    /\ \A Context \in StatementContexts :
          Permissions(LoopContext(Context)) = <<AllowPlaceholder(Context), TRUE>>
    /\ call.op = "statement" =>
          LET here == Permissions(call.param)
              loop == <<AllowPlaceholder(call.param), TRUE>>
          IN  \A s \in ContextStatements :
                  /\ source = s => (Taken(s) <=> Permitted(here, s))
                  /\ source \in InBranch(s) => (Taken(s) <=> Permitted(here, s))
                  /\ source \in InLoop(s) => (Taken(s) <=> Permitted(loop, s))
                  /\ source \in UNION {InBranch(w) : w \in InLoop(s)} =>
                        (Taken(s) <=> Permitted(loop, s))
                  /\ source \in UNION {InLoop(w) : w \in InBranch(s)} =>
                        (Taken(s) <=> Permitted(loop, s))

\* under ModifierContext the branch of an if in a loop holds a continue
C21_Witness ==
    /\ StatementParsed({"ModifierContext"})
    /\ source = <<"while", "(", "a", ")", "if", "(", "a", ")", "continue", ";">>
    /\ result.kind = "WhileStatement"
    /\ result.body.kind = "IfStatement"
    /\ result.body.consequent.kind = "ContinueStatement"
    /\ errors = <<>>

\* the tokens Parser::statement dispatches on before its fallback
DispatchTokens ==
    {"BraceOpen", "KeywordIf", "KeywordWhile", "KeywordFor", "KeywordDo",
     "KeywordReturn", "KeywordThrow", "KeywordAssembly", "DeclarationVar"}

\* the parser state at place p with the errors recorded so far
At(p) == [pos |-> p, errs |-> errors]

\* the statement began at the first lexeme and took the fallback
FallbackTaken ==
    /\ call.op = "statement"
    /\ TokenAt(1) \notin DispatchTokens
    /\ IsNone(PreParse(call.param, [pos |-> 1, errs |-> <<>>]).node)

\* a variable-definition attempt that returned None left the parser where
\* it started
Untouched(definition, st) == IsNone(definition.node) => definition.st = st

\* the parser is left as the expression-statement attempt r left it
FellBackTo(statement) ==
    /\ result = statement.node
    /\ lexer = statement.st.pos
    /\ errors = statement.st.errs

ModifierContexts == {"ModifierContext", "ModifierLoopContext"}

\* the token at place p is the identifier `_`
UnderscoreAt(p) == TokenAt(p) = "Identifier" /\ SliceAt(p) = "_"

PlaceholderParsed == IsSome(result) /\ result.kind = "Placeholder"

\* C25 as stated: in the modifier contexts a statement is a Placeholder
\* exactly when its first token is the identifier _ and the token after it
\* is the semicolon
C25_PlaceholderOnlyBeforeSemicolon ==
    StatementParsed(ModifierContexts)
    => (PlaceholderParsed <=> (UnderscoreAt(1) /\ TokenAt(2) = "Semicolon"))

\* C25 amended: in the modifier contexts a statement is a Placeholder
\* exactly when its first token is the identifier _, whatever follows; when
\* the token after it is not the semicolon the Placeholder is produced all
\* the same, with one error recorded at that token, which is not consumed
C25_PlaceholderAtUnderscore ==
    StatementParsed(ModifierContexts)
    => /\ PlaceholderParsed <=> UnderscoreAt(1)
       /\ UnderscoreAt(1) =>
             /\ result.start = 1
             /\ IF TokenAt(2) = "Semicolon"
                THEN lexer = 3 /\ errors = <<>>
                ELSE lexer = 2 /\ errors = <<2>>

\* C25 witness: _ = 1 ; was parsed in a modifier, to a Placeholder with an
\* error at the =
C25_Witness ==
    /\ StatementParsed({"ModifierContext"})
    /\ source = <<"_", "=", "1", ";">>
    /\ result.kind = "Placeholder"
    /\ lexer = 2
    /\ errors = <<2>>

RECURSIVE ForInits(_)
\* the init fields of the for statements of the tree n
ForInits(n) ==
    (IF n.kind = "ForStatement" THEN {n.init} ELSE {})
    \cup UNION {ForInits(Children(n)[i]) : i \in DOMAIN Children(n)}

\* a for statement with nothing in its head
EmptyHead == <<"for", "(", ";", ";", ")">>

\* a for statement with nothing in its head was parsed to a node: the
\* three fields are None and no error is recorded in the head
EmptyHeadParsed ==
    (/\ call.op = "statement"
     /\ Len(source) > 5 /\ SubSeq(source, 1, 5) = EmptyHead
     /\ IsSome(result))
    => /\ result.kind = "ForStatement"
       /\ IsNone(result.init) /\ IsNone(result.test) /\ IsNone(result.update)
       /\ \A p \in 1..5 : ~ErrorAt(p)
       /\ source = EmptyHead \o <<"{", "}">> => errors = <<>>

\* C26 as stated: the init of a for statement is a variable definition or
\* an expression statement
C26_ForInitOfTwoKinds ==
    call.op \in StatementCalls =>
        \A init \in ForInits(result) :
            init.kind \in {"None", "VariableDefinitionStatement", "ExpressionStatement"}

\* C26 amended: in every context the init of a for statement is a
\* variable definition, an inferred (var) definition or an expression
\* statement, never a Placeholder, a jump, a block or a control-flow
\* statement; and for ( ; ; ) has three None fields and no error
C26_ForInitIsSimple ==
    /\ call.op \in StatementCalls =>
          \A init \in ForInits(result) :
              init.kind \in {"None", "VariableDefinitionStatement",
                             "InferredDefinitionStatement", "ExpressionStatement"}
    /\ EmptyHeadParsed

\* C26 witness: for ( _ ; ; ) a ; was parsed in the loop context of a
\* modifier: its init is the expression statement of the identifier _
C26_Witness ==
    /\ StatementParsed({"ModifierLoopContext"})
    /\ source = <<"for", "(", "_", ";", ";", ")", "a", ";">>
    /\ result.kind = "ForStatement"
    /\ PlaceholderAsExpression(result.init, 3)
    /\ errors = <<>>

\* a block with a break in the body of its loop and a break behind the loop
BreakBehindLoop ==
    <<"{", "while", "(", "a", ")", "{", "break", ";", "}", "break", ";", "}">>

\* the loop of BreakBehindLoop, with its break taken
LoopWithBreak(n) ==
    /\ n.kind = "WhileStatement"
    /\ n.body.kind = "Block"
    /\ Len(n.body.body) = 1
    /\ n.body.body[1].kind = "BreakStatement"
    /\ n.body.body[1].start = 7 /\ n.body.body[1].end = 9

\* C28: the context is scoped by the nesting of the source: in the body of
\* a function or a modifier, the break in the loop of
\* { while ( a ) { break ; } break ; } is taken and the break behind the
\* loop is not: the block ends in front of it, with an error at it and the
\* lexer left on it; in a loop context both are taken. No tree parsed
\* outside a loop context has a jump outside a loop, and no tree parsed in
\* a context without the placeholder has a Placeholder, in a loop body or
\* elsewhere
C28_ContextLexicallyScoped ==
    call.op = "statement" =>
       /\ source = BreakBehindLoop =>
             /\ result.kind = "Block"
             /\ LoopWithBreak(result.body[1])
             /\ IF AllowLoopBreak(call.param)
                THEN /\ Len(result.body) = 2
                     /\ result.body[2].kind = "BreakStatement"
                     /\ lexer = 13 /\ errors = <<>>
                ELSE /\ Len(result.body) = 1
                     /\ lexer = 10 /\ errors = <<10>>
       /\ ~AllowLoopBreak(call.param) => JumpsInLoops(result, FALSE)
       /\ ~AllowPlaceholder(call.param) => NoPlaceholder(result)

\* C28 witness: { while ( a ) { break ; } break ; } was parsed in a
\* function body: the block holds the loop alone and the second break is an
\* error
C28_Witness ==
    /\ StatementParsed({"FunctionContext"})
    /\ source = BreakBehindLoop
    /\ Len(result.body) = 1
    /\ LoopWithBreak(result.body[1])
    /\ errors = <<10>>

\* if ( a ) if ( b ) a ; else b ;
DanglingElse ==
    <<"if", "(", "a", ")", "if", "(", "b", ")", "a", ";", "else", "b", ";">>

\* an if statement with an else and nothing behind it
ElseAlone == <<"if", "(", "a", ")", "a", ";", "else">>

\* n is the expression statement of the identifier at place p
IdStatementAt(n, p) ==
    /\ n.kind = "ExpressionStatement"
    /\ OperandAt(n.expression, p)
    /\ n.start = p /\ n.end = p + 2

RECURSIVE IfSpans(_)
\* every if statement of the tree n ends with its alternate when it has
\* one, and with its consequent when it has none
IfSpans(n) ==
    /\ n.kind = "IfStatement" =>
          n.end = IF IsSome(n.alternate) THEN n.alternate.end
                  ELSE n.consequent.end
    /\ \A i \in DOMAIN Children(n) : IfSpans(Children(n)[i])

\* C29: an else belongs to the innermost if: if ( a ) if ( b ) a ; else b ;
\* is an if statement without an alternate whose consequent is the inner if
\* statement with the alternate b ; an if statement ends with its alternate
\* when it has one and with its consequent otherwise; and an else with no
\* statement behind it records an error and still yields the if statement,
\* with alternate None
C29_ElseOfInnermostIf ==
    call.op = "statement" =>
       /\ IfSpans(result)
       /\ source = DanglingElse =>
             /\ result.kind = "IfStatement"
             /\ IsNone(result.alternate)
             /\ result.consequent.kind = "IfStatement"
             /\ result.consequent.start = 5
             /\ IdStatementAt(result.consequent.consequent, 9)
             /\ IdStatementAt(result.consequent.alternate, 12)
             /\ result.start = 1 /\ result.end = 14
             /\ lexer = 14 /\ errors = <<>>
       /\ source \in {ElseAlone, ElseAlone \o <<";">>} =>
             /\ result.kind = "IfStatement"
             /\ IdStatementAt(result.consequent, 5)
             /\ IsNone(result.alternate)
             /\ result.start = 1 /\ result.end = 7
             /\ lexer = 8 /\ errors = <<8>>

\* C29 witness: if ( a ) a ; else was parsed in a function body, to an if
\* statement without an alternate and an error behind the else
C29_Witness ==
    /\ StatementParsed({"FunctionContext"})
    /\ source = ElseAlone
    /\ result.kind = "IfStatement"
    /\ IsNone(result.alternate)
    /\ errors = <<8>>

-----------------------------------------------------------------------------
(* Properties of the loops                                                 *)

\* C11: every parse call returns: an iteration of the contract-part loop, of
\* the statement loop of a block, of the comma loop of an event's parameters
\* or of the handler loop of nested_expression that goes on has moved the
\* lexer forward by at least one token, and the lexer never passes the end
\* marker, so that no loop makes more iterations than the source has tokens
C11_LoopsAdvance ==
    [][/\ call'.op # "returned" => lexer' > lexer
       /\ lexer' <= Len(source) + 1]_vars

\* the contract-part loop is left after it went over two parts or more
C11_Witness ==
    /\ call.op = "returned"
    /\ call.param = "contract_body"
    /\ lexer > 10
    /\ TokenAt(lexer) = "BraceClose"

-----------------------------------------------------------------------------
(* Properties of the contract engine                                       *)

\* contract_part returned the node of a part of the given kind
PartParsed(kind) ==
    /\ call.op = "contract_part"
    /\ IsSome(result)
    /\ result.kind = kind

\* the number of flag lexemes that follow the type name of the source
FlagRun ==
    CHOOSE n \in 0..Len(source) :
        /\ \A i \in 2..(n + 1) : i <= Len(source) /\ source[i] \in FlagLexemes
        /\ n + 2 > Len(source) \/ source[n + 2] \notin FlagLexemes

IsVisibility(lexeme) == TokenOf[lexeme] \in DOMAIN VisibilityOf

\* the flag node of the lexeme at position p of the source
FlagSet(p) ==
    IF IsVisibility(source[p])
    THEN /\ IsSome(result.visibility)
         /\ result.visibility.value = VisibilityOf[TokenOf[source[p]]]
         /\ result.visibility.start = StartAt(p)
    ELSE /\ IsSome(result.constant)
         /\ result.constant.start = StartAt(p)

\* C12: in a state-variable declaration the first flag after the type is
\* set; a second flag of the other sort is set as well, without an error; a
\* second visibility keyword or a second `constant` records an error and
\* leaves the first value as it was set, with the other flag unset; and no
\* more than two flag tokens are read, so that the name is looked for no
\* later than at the fourth token
C12_FlagsAtMostOnce ==
    (PartParsed("StateVariableDeclaration") /\ FlagRun >= 1) =>
        /\ FlagSet(2)
        /\ FlagRun >= 2 =>
              IF IsVisibility(source[2]) = IsVisibility(source[3])
              THEN /\ ErrorAt(3)
                   /\ IsNone(result.visibility) \/ IsNone(result.constant)
              ELSE /\ FlagSet(3)
                   /\ ~ErrorAt(2) /\ ~ErrorAt(3)
        /\ result.name.start <= StartAt(4)
        /\ FlagRun >= 3 => ErrorAt(4) \/ ErrorAt(3)

\* `uint public private a ;`: the declaration stays public, with an error
C12_Witness ==
    /\ PartParsed("StateVariableDeclaration")
    /\ FlagRun = 2
    /\ source[2] = "public" /\ source[3] = "private"
    /\ result.visibility.value = "Public"
    /\ IsNone(result.constant)
    /\ ErrorAt(3)

\* the parts of the tree that was returned: the part itself, or the parts
\* of the contract
PartsParsed ==
    IF IsNone(result) THEN {}
    ELSE IF call.op = "contract_part" THEN {result}
    ELSE IF call.op = "contract_definition"
         THEN {result.body[i] : i \in DOMAIN result.body}
    ELSE {}

StructsParsed == {part \in PartsParsed : part.kind = "StructDefinition"}

\* C13 as it is stated: every StructDefinition node has at least one field
\* in its body, whether or not the parse recorded errors
C13_StructHasField ==
    \A struct \in StructsParsed : Len(struct.body) >= 1

\* C13: a StructDefinition node has at least one field in its body unless
\* the parse recorded an error within the struct: a parse without errors
\* yields no struct with an empty body
C13_StructHasFieldOrError ==
    \A struct \in StructsParsed :
        Len(struct.body) = 0 =>
            \E i \in DOMAIN errors :
                struct.start < errors[i] /\ errors[i] <= struct.end

\* `struct a { }`: a node with an empty body, and an error at the brace
C13_Witness ==
    /\ PartParsed("StructDefinition")
    /\ source = <<"struct", "a", "{", "}">>
    /\ result.body = <<>>
    /\ errors = <<4>>

\* the declaration node of the field fs[i] of Struct(fs): type, location if
\* any, and name, from the token the field starts at
FieldParsed(field, fs, i) ==
    LET at == 4 + Len(Join(SubSeq(fs, 1, i - 1), <<>>))
        lexemes == fs[i]
    IN  /\ field.kind = "VariableDeclaration"
        /\ field.start = StartAt(at)
        /\ field.type_name.value = lexemes[1]
        /\ field.id.value = lexemes[Len(lexemes) - 1]
        /\ IsSome(field.location) <=> Len(lexemes) = 4
        /\ field.end = EndAt(at + Len(lexemes) - 2)

\* C14: a struct whose braces hold no field records an error; a struct
\* with one field or more records none, and its body lists the fields in
\* the order of the source
C14_StructFields ==
    \A fs \in SeqsUpTo(FieldSources, MaxItems) :
        (call.op = "contract_part" /\ source = Struct(fs)) =>
            /\ result.kind = "StructDefinition"
            /\ IF fs = <<>> THEN errors # <<>>
               ELSE /\ errors = <<>>
                    /\ Len(result.body) = Len(fs)
                    /\ \A i \in DOMAIN fs : FieldParsed(result.body[i], fs, i)

\* a struct of two different fields
C14_Witness ==
    /\ PartParsed("StructDefinition")
    /\ source = Struct(<<<<"uint", "storage", "b", ";">>, <<"a", "b", ";">>>>)
    /\ Len(result.body) = 2
    /\ result.body[1].type_name.value = "uint"
    /\ result.body[2].type_name.value = "a"
    /\ errors = <<>>

\* the node kind of the part that a declaration keyword opens
PartKind ==
    [KeywordUsing |-> "UsingForDeclaration",
     DeclarationStruct |-> "StructDefinition",
     DeclarationModifier |-> "ModifierDefinition",
     DeclarationFunction |-> "FunctionDefinition",
     DeclarationEvent |-> "EventDefinition",
     DeclarationEnum |-> "EnumDefinition"]

\* part is what contract_part makes of the token at position p
Dispatched(part, p) ==
    IF TokenAt(p) \in DOMAIN PartKind THEN part.kind = PartKind[TokenAt(p)]
    ELSE part.kind = "StateVariableDeclaration"

\* C16: contract_part yields the part that the token it starts at selects: a
\* declaration keyword its own definition, any other token a state variable
\* (or nothing); contract_definition holds every part up to the first token
\* that starts none, and there it either reads `}` or records an error and
\* stays
C16_PartsDispatched ==
    /\ call.op = "contract_part" =>
          IF TokenAt(1) \in DOMAIN PartKind
          THEN IsSome(result) /\ Dispatched(result, 1)
          ELSE IsNone(result) \/ Dispatched(result, 1)
    /\ call.op = "contract_definition" =>
          /\ \A i \in DOMAIN result.body :
                Dispatched(result.body[i], result.body[i].start)
          /\ \A parts \in SeqsUpTo(CoreParts, MaxItems) :
                source = Contract(<<>>, parts) =>
                    /\ Len(result.body) = Len(parts)
                    /\ errors = <<>>
          /\ \A part \in CoreParts, junk \in JunkLexemes :
                source = Contract(<<>>, <<part, <<junk>>>>) =>
                    /\ Len(result.body) = 1
                    /\ errors = <<4 + Len(part)>>
                    /\ lexer = 4 + Len(part)
          /\ \/ /\ lexer > 1
                /\ TokenAt(lexer - 1) = "BraceClose"
                /\ result.end = EndAt(lexer - 1)
             \/ /\ TokenAt(lexer) # "BraceClose"
                /\ errors # <<>>
                /\ errors[Len(errors)] = lexer
                /\ result.end = EndAt(lexer)

\* a contract of a state variable and a stray semicolon: one part, and an
\* error at the semicolon
C16_Witness ==
    /\ call.op = "contract_definition"
    /\ source = Contract(<<>>, <<<<"uint", "public", "a", ";">>, <<";">>>>)
    /\ Len(result.body) = 1
    /\ result.body[1].kind = "StateVariableDeclaration"
    /\ errors = <<8>>

\* C18: after `using a for`, `*` gives a declaration without a type name
\* and a type name gives a declaration with it, both without an error when
\* the semicolon follows; any other token gives a declaration without a type
\* name, and an error at that token
C18_UsingFor ==
    (/\ call.op = "contract_part"
     /\ Len(source) >= 3
     /\ SubSeq(source, 1, 3) = <<"using", "a", "for">>) =>
        /\ IsSome(result)
        /\ result.kind = "UsingForDeclaration"
        /\ result.id.value = "a"
        /\ CASE TokenAt(4) = "OperatorMultiplication" ->
                    /\ IsNone(result.type_name)
                    /\ TokenAt(5) = "Semicolon" => errors = <<>>
             [] TokenAt(4) \in ElementaryTypeTokens \cup {"Identifier"} ->
                    /\ IsSome(result.type_name)
                    /\ result.type_name.value = source[4]
                    /\ result.type_name.start = StartAt(4)
                    /\ TokenAt(5) = "Semicolon" => errors = <<>>
             [] OTHER ->
                    /\ IsNone(result.type_name)
                    /\ ErrorAt(4)

\* `using a for 1 ;`: an error at the number, and a node without a type name
C18_Witness ==
    /\ PartParsed("UsingForDeclaration")
    /\ source = <<"using", "a", "for", "1", ";">>
    /\ IsNone(result.type_name)
    /\ ErrorAt(4)

\* the node of an indexed parameter ends with the last of its components
\* that is there: the name, else the flag, else the type name
EndsWithLastComponent(param) ==
    param.end = IF IsSome(param.name) THEN param.name.end
                ELSE IF IsSome(param.indexed) THEN param.indexed.end
                ELSE param.type_name.end

\* the node of the parameter ps[i] of Event(ps, an): from its type name to
\* its last lexeme, with the flag and the name that the source has
ParameterParsed(param, ps, i) ==
    LET at == 4 + Len(Join(SubSeq(ps, 1, i - 1), <<",">>))
                + (IF i > 1 THEN 1 ELSE 0)
        lexemes == ps[i]
    IN  /\ param.kind = "IndexedParameter"
        /\ param.start = StartAt(at)
        /\ param.type_name.start = StartAt(at)
        /\ param.end = EndAt(at + Len(lexemes) - 1)
        /\ IsSome(param.indexed) <=> (Len(lexemes) >= 2 /\ lexemes[2] = "indexed")
        /\ IsSome(param.name) <=> TokenOf[lexemes[Len(lexemes)]] = "Identifier"
        /\ IsSome(param.name) => param.name.value = lexemes[Len(lexemes)]

EventsParsed == {part \in PartsParsed : part.kind = "EventDefinition"}

\* C20: an event of no parameter or more, with or without `anonymous`,
\* parses without error; it has one node for each parameter, from the type
\* name to the last component that is there, with the flag and the name
\* None exactly when the source has none, and the anonymous flag exactly
\* when the source has it; and in every tree, whatever the errors, the node
\* of a parameter ends with its last component
C20_EventParameters ==
    /\ \A event \in EventsParsed :
          \A i \in DOMAIN event.params : EndsWithLastComponent(event.params[i])
    /\ call.op = "contract_part" =>
          \A ps \in SeqsUpTo(ParameterSources, MaxItems), an \in AnonymousSources :
              source = Event(ps, an) =>
                  /\ result.kind = "EventDefinition"
                  /\ errors = <<>>
                  /\ IsSome(result.anonymous) <=> an # <<>>
                  /\ Len(result.params) = Len(ps)
                  /\ \A i \in DOMAIN ps : ParameterParsed(result.params[i], ps, i)

\* `event a ( uint indexed , uint a ) anonymous ;`
C20_Witness ==
    /\ PartParsed("EventDefinition")
    /\ source = Event(<<<<"uint", "indexed">>, <<"uint", "a">>>>, <<"anonymous">>)
    /\ Len(result.params) = 2
    /\ IsSome(result.params[1].indexed) /\ IsNone(result.params[1].name)
    /\ IsNone(result.params[2].indexed) /\ IsSome(result.params[2].name)
    /\ IsSome(result.anonymous)
    /\ errors = <<>>

\* the visibility keyword among the two flags of the source, which are a
\* visibility keyword and `constant` in either order
VisibilityLexeme == IF IsVisibility(source[2]) THEN source[2] ELSE source[3]

\* the place of the lexeme l among the two flags
PlaceOf(l) == IF source[2] = l THEN 2 ELSE 3

\* C24: a state-variable declaration whose two flags are a visibility
\* keyword and `constant` has the visibility of the keyword and is constant
\* whichever of the two comes first, and records no error; its name,
\* initializer and span are where they are in the other order, and only the
\* spans of the two flags follow the order
C24_FlagOrderIrrelevant ==
    (/\ call.op = "contract_part"
     /\ source[1] = "uint"
     /\ FlagRun = 2
     /\ {IsVisibility(source[2]), IsVisibility(source[3])} = {TRUE, FALSE})
      => /\ result.kind = "StateVariableDeclaration"
         /\ IsSome(result.visibility) /\ IsSome(result.constant)
         /\ result.visibility.value = VisibilityOf[TokenOf[VisibilityLexeme]]
         /\ result.visibility.start = PlaceOf(VisibilityLexeme)
         /\ result.constant.kind = "Flag"
         /\ result.constant.start = PlaceOf("constant")
         /\ result.name.value = source[4] /\ result.name.start = 4
         /\ IsSome(result.init) <=> source[5] = "="
         /\ result.start = 1 /\ result.end = Len(source) + 1
         /\ lexer = Len(source) + 1
         /\ errors = <<>>

\* C24 witness: uint constant private a ; is a private constant
C24_Witness ==
    /\ PartParsed("StateVariableDeclaration")
    /\ source = <<"uint", "constant", "private", "a", ";">>
    /\ result.visibility.value = "Private"
    /\ result.visibility.start = 3
    /\ result.constant.start = 2
    /\ errors = <<>>

-----------------------------------------------------------------------------
(* The three engines together: a statement, a contract part, a contract or *)
(* an expression is parsed from a source of any of the engines, so that    *)
(* each parser also meets the sources that are not its own                 *)

SpanSources ==
    WithDamaged(Statements(MaxDepth - 1) \cup OtherStatements \cup VarSources)
    \cup PartSources
    \cup {Contract(<<>>, parts) : parts \in SeqsUpTo(CoreParts, MaxItems)}
    \cup {Contract(is, <<>>) : is \in InheritSources}
    \cup UNION {ChainsLen(NestedLexemes, n) : n \in 1..(MaxChainLen - 2)}

InitSpans == NewParser(SpanSources)

NextSpans ==
    \/ ParseStatement
    \/ ParseContractPart
    \/ ParseContractDefinition
    \/ ParseExpression

SpecSpans == InitSpans /\ [][NextSpans]_vars

-----------------------------------------------------------------------------
(* Properties of the spans                                                 *)

\* every node that n holds, leaves included (an absent one is None)
Parts(n) ==
    CASE n.kind \in {"BinaryExpression", "AssignmentExpression"} ->
             <<n.left, n.operator, n.right>>
      [] n.kind = "ConditionalExpression" -> <<n.test, n.consequent, n.alternate>>
      [] n.kind = "CallExpression" -> <<n.callee>> \o n.arguments
      [] n.kind = "MemberAccessExpression" -> <<n.object, n.member>>
      [] n.kind = "IndexAccessExpression" -> <<n.array, n.index>>
      [] n.kind = "PostfixExpression" -> <<n.operand, n.operator>>
      [] n.kind = "TupleExpression" -> n.expressions
      [] n.kind = "VariableDeclaration" -> <<n.type_name, n.location, n.id>>
      [] n.kind = "ExpressionStatement" -> <<n.expression>>
      [] n.kind = "VariableDefinitionStatement" -> <<n.declaration, n.init>>
      [] n.kind = "InferredDefinitionStatement" -> n.ids \o <<n.init>>
      [] n.kind = "ReturnStatement" -> <<n.value>>
      [] n.kind = "InlineAssemblyStatement" -> <<n.string, n.block>>
      [] n.kind = "Block" -> n.body
      [] n.kind = "IfStatement" -> <<n.test, n.consequent, n.alternate>>
      [] n.kind = "WhileStatement" -> <<n.test, n.body>>
      [] n.kind = "ForStatement" -> <<n.init, n.test, n.update, n.body>>
      [] n.kind = "DoWhileStatement" -> <<n.body, n.test>>
      [] n.kind = "Parameter" -> <<n.type_name, n.name>>
      [] n.kind = "ModifierDefinition" -> <<n.name>> \o n.params \o <<n.block>>
      [] n.kind = "StateVariableDeclaration" ->
             <<n.type_name, n.visibility, n.constant, n.name, n.init>>
      [] n.kind = "UsingForDeclaration" -> <<n.id, n.type_name>>
      [] n.kind = "StructDefinition" -> <<n.name>> \o n.body
      [] n.kind = "IndexedParameter" -> <<n.type_name, n.indexed, n.name>>
      [] n.kind = "EventDefinition" -> <<n.name>> \o n.params \o <<n.anonymous>>
      [] n.kind = "EnumDefinition" -> <<n.name>> \o n.variants
      [] n.kind = "FunctionDefinition" -> <<n.name>> \o n.params \o <<n.block>>
      [] n.kind = "ContractDefinition" -> <<n.name>> \o n.inherits \o n.body
      [] OTHER -> <<>>

RECURSIVE WellSpanned(_)
\* n and every node under it start no later than they end, and every node
\* under n lies within the span of the node that holds it
WellSpanned(n) ==
    /\ n.start <= n.end
    /\ \A i \in DOMAIN Parts(n) :
          LET part == Parts(n)[i]
          IN  IsSome(part) =>
                  /\ n.start <= part.start
                  /\ part.end <= n.end
                  /\ WellSpanned(part)

\* C15: every node of a tree returned by contract_part, contract_definition,
\* statement or expression starts no later than it ends and lies within the
\* span of its parent, whether or not the parse recorded errors
C15_SpansNested ==
    (call.op # "new" /\ IsSome(result)) => WellSpanned(result)

\* a damaged event definition: the parse records an error, and the node of
\* its one parameter ends with the name, the last of its three components
C15_Witness ==
    /\ PartParsed("EventDefinition")
    /\ errors # <<>>
    /\ Len(result.params) = 1
    /\ IsSome(result.params[1].indexed)
    /\ IsSome(result.params[1].name)
    /\ result.params[1].end = result.params[1].name.end

-----------------------------------------------------------------------------
(* Properties of the lists                                                 *)

\* the lists that the node n holds
Lists(n) ==
    CASE n.kind = "CallExpression" -> <<n.arguments>>
      [] n.kind = "TupleExpression" -> <<n.expressions>>
      [] n.kind = "InferredDefinitionStatement" -> <<n.ids>>
      [] n.kind = "Block" -> <<n.body>>
      [] n.kind = "ModifierDefinition" -> <<n.params>>
      [] n.kind = "FunctionDefinition" -> <<n.params>>
      [] n.kind = "StructDefinition" -> <<n.body>>
      [] n.kind = "EventDefinition" -> <<n.params>>
      [] n.kind = "EnumDefinition" -> <<n.variants>>
      [] n.kind = "ContractDefinition" -> <<n.inherits, n.body>>
      [] OTHER -> <<>>

\* the elements of list that are there stand one after the other, as their
\* tokens do in the source
InSourceOrder(list) ==
    \A i, j \in DOMAIN list :
        (i < j /\ IsSome(list[i]) /\ IsSome(list[j])) =>
            /\ list[i].start < list[j].start
            /\ list[i].end <= list[j].end

RECURSIVE ListsInOrder(_)
\* every list of n and of the nodes under n is in source order
ListsInOrder(n) ==
    /\ \A k \in DOMAIN Lists(n) : InSourceOrder(Lists(n)[k])
    /\ \A i \in DOMAIN Parts(n) :
          IsSome(Parts(n)[i]) => ListsInOrder(Parts(n)[i])

\* the names that the nodes of list hold, one for one
Values(list) == [i \in DOMAIN list |-> list[i].value]

\* the one lexeme of each source of ss, one for one
Singles(ss) == [i \in DOMAIN ss |-> ss[i][1]]

\* C17: every list of a returned tree holds its elements in the order of
\* the source, none of them twice; the names a contract inherits, the
\* variants of an enum and the statements of a block are all there, one for
\* one, as the source has them (`contract a is a , b { }` gives [a, b])
C17_ListsInSourceOrder ==
    /\ (call.op # "new" /\ IsSome(result)) => ListsInOrder(result)
    /\ call.op = "contract_definition" =>
          /\ \A ns \in SeqsUpTo(NameSources, MaxItems) :
                source = Contract(Is(ns), <<>>) =>
                    Values(result.inherits) = Singles(ns)
          /\ \A parts \in SeqsUpTo(CoreParts, MaxItems) :
                source = Contract(<<>>, parts) =>
                    /\ Len(result.body) = Len(parts)
                    /\ \A i \in DOMAIN parts :
                          result.body[i].start
                              = 4 + Len(Join(SubSeq(parts, 1, i - 1), <<>>))
    /\ call.op = "contract_part" =>
          \A ns \in SeqsUpTo(NameSources, MaxItems) :
              source = Enum(ns) => Values(result.variants) = Singles(ns)
    /\ call.op = "statement" =>
          \A s \in Statements(0) :
              (source = <<"{", "a", ";">> \o s \o <<"}">> /\ errors = <<>>) =>
                  /\ Len(result.body) = 2
                  /\ result.body[1].start = 2
                  /\ result.body[2].start = 4

\* `contract a is a , b { }`
C17_Witness ==
    /\ call.op = "contract_definition"
    /\ source = Contract(Is(<<<<"a">>, <<"b">>>>), <<>>)
    /\ Len(result.inherits) = 2
    /\ result.inherits[1].value = "a"
    /\ result.inherits[2].value = "b"
    /\ errors = <<>>

=============================================================================
